---- MODULE Spec2Model ----
(***************************************************************************)
(* Model of the Code Compiler & Executer server: the job queue of          *)
(* queue_manager.c, the worker thread, the client session handlers of      *)
(* client_handler.c and the control-plane handlers of admin_handler.c.     *)
(***************************************************************************)
EXTENDS Integers, Sequences, FiniteSets, TLC

(* ---------------------------------------------------------------------- *)
(* Bounds of the model                                                     *)
(* ---------------------------------------------------------------------- *)
MaxJobs == 2
MaxClients == 2
MaxTicks == 1
StartTime == 10000
WrapGap == 1
MaxCorr == 2
\* number of addresses malloc has for job_node_t
MaxNodes == 3
\* the queue-depth cap job_queue.max_size, scaled down from the 10000 of
\* job_queue_init so that MaxJobs submissions pass it
max_size == 1
\* job ids are uint32_t; the counter is modelled modulo IdModulus, which
\* stands for 2^32 (more than the model checker's integers hold)
IdModulus == 16

(* ---------------------------------------------------------------------- *)
(* Program constants                                                       *)
(* ---------------------------------------------------------------------- *)
JOB_STATE_QUEUED == 0
JOB_STATE_RUNNING == 1
JOB_STATE_COMPLETED == 2
JOB_STATE_FAILED == 3
JOB_STATE_CANCELLED == 4
JOB_STATE_TIMEOUT == 5

JOB_STATUS_QUEUED == 0

CLIENT_STATE_CONNECTING == 0
CLIENT_STATE_AUTHENTICATED == 1
CLIENT_STATE_IDLE == 2
CLIENT_STATE_UPLOADING == 3
CLIENT_STATE_PROCESSING == 4
CLIENT_STATE_DISCONNECTING == 5

EXEC_MODE_COMPILE_ONLY == 0
EXEC_MODE_COMPILE_AND_RUN == 1

JOB_PRIORITY_LOW == 1
JOB_PRIORITY_NORMAL == 5
JOB_PRIORITY_HIGH == 10
MAX_COMPLETED_JOB_AGE == 3600
CLIENT_TIMEOUT == 300
TIMEOUT_EXIT_CODE == 124

MSG_HELLO == 1
MSG_ACK == 100
MSG_ERROR == 102
MSG_COMPILE_RESPONSE == 103
MSG_STATUS_RESPONSE == 104
MSG_RESULT_RESPONSE == 105
MSG_PONG == 106
MSG_ADMIN_LIST_CLIENTS == 202
MSG_ADMIN_LIST_JOBS == 203
MSG_ADMIN_SERVER_STATS == 204
MSG_ADMIN_CONFIG_GET == 208

ERROR_NONE == 0
ERROR_INVALID_ARGUMENT == 1
ERROR_PERMISSION == 2
ERROR_NOT_FOUND == 3
ERROR_QUOTA_EXCEEDED == 4
ERROR_INTERNAL == 6

JobStates == {JOB_STATE_QUEUED, JOB_STATE_RUNNING, JOB_STATE_COMPLETED,
              JOB_STATE_FAILED, JOB_STATE_CANCELLED, JOB_STATE_TIMEOUT}
TerminalStates == {JOB_STATE_COMPLETED, JOB_STATE_FAILED,
                   JOB_STATE_CANCELLED, JOB_STATE_TIMEOUT}
Modes == {EXEC_MODE_COMPILE_ONLY, EXEC_MODE_COMPILE_AND_RUN}
ExitCodes == {0, 1, TIMEOUT_EXIT_CODE}
TickSteps == {CLIENT_TIMEOUT, CLIENT_TIMEOUT + 1,
              MAX_COMPLETED_JOB_AGE, MAX_COMPLETED_JOB_AGE + 1}

\* The sizes a run may have: how many clients connect, how many jobs are
\* submitted, how often the clock advances, whether an operator uses the
\* control socket, whether priorities are set, how many different
\* correlation ids the peers use, whether peers send frames that no handler
\* serves.  Every run is of one of these sizes.
Scopes ==
    { [clients |-> MaxClients, jobs |-> 1, ticks |-> 0, admin |-> FALSE,
       prio |-> FALSE, corr |-> 1,
       frames |-> FALSE],
      [clients |-> 1, jobs |-> MaxJobs, ticks |-> 0, admin |-> FALSE,
       prio |-> TRUE, corr |-> 1,
       frames |-> FALSE],
      [clients |-> 1, jobs |-> 1, ticks |-> MaxTicks, admin |-> FALSE,
       prio |-> FALSE, corr |-> MaxCorr,
       frames |-> FALSE],
      [clients |-> 1, jobs |-> 1, ticks |-> 0, admin |-> TRUE,
       prio |-> FALSE, corr |-> 1,
       frames |-> FALSE],
      [clients |-> 1, jobs |-> 0, ticks |-> 0, admin |-> TRUE,
       prio |-> FALSE, corr |-> MaxCorr,
       frames |-> TRUE] }

(* ---------------------------------------------------------------------- *)
(* State                                                                   *)
(* ---------------------------------------------------------------------- *)
VARIABLES
    next_id,         \* static counter of generate_job_id
    job_queue,       \* the linked list head..tail, as a sequence of job_info_t
    worker,          \* job_processor_thread: position and its private job copy
    clients,         \* roster: client_id -> client_info_t
    next_client_id,  \* g_server.next_client_id
    stats,           \* g_server.stats
    admin,           \* g_admin_session and the admin thread's client_fd, with
                     \* the number of control connections accepted and not
                     \* yet closed, and whether the session's socket holds a
                     \* message the thread has not read
    now,             \* time(NULL)
    ticks,           \* number of clock advances so far
    hist,            \* history: every job id handed out -> what happened to it
    issued,          \* history: ids returned by generate_job_id, in order
    base_id,         \* history: value of next_id when observation started
    last,            \* history: the operation performed last and its reply
    scope,           \* the size of this run, fixed at the start
    wire,            \* history: correlation id bytes of the request read last
                     \* and of the response written for it
    shutdown_requested, \* g_shutdown_requested or g_server.shutdown_requested
                        \* is set: every thread tests both at the head of
                        \* its loop
    locks,           \* who holds clients_mutex, jobs_mutex and stats_mutex,
                     \* and the lock and unlock calls each thread has still
                     \* to make on the path it is on
    list,            \* the linked list of g_server.job_queue as the heap holds
                     \* it: head, tail and count, each node's next pointer
                     \* and job, the nodes malloc has handed out, and (as
                     \* history) the ids of the jobs added and not yet
                     \* taken out by get_next_job or cleanup_completed_jobs
    threads          \* where main is, whether the admin and the client
                     \* thread still run their loops, and the job_info_t
                     \* pointer the client thread has from find_job while it
                     \* is inside handle_status_request

vars == <<next_id, job_queue, worker, clients, next_client_id, stats, admin,
          now, ticks, hist, issued, base_id, last, scope, wire,
          shutdown_requested, threads, locks, list>>

NoJob ==
    [job_id |-> 0, client_id |-> 0, state |-> JOB_STATE_QUEUED,
     mode |-> EXEC_MODE_COMPILE_ONLY, priority |-> 0, start_time |-> 0,
     end_time |-> 0, process_id |-> 0, exit_code |-> 0]

Threads == {"client", "admin", "worker"}

\* the client thread holds no pointer into the job table
NoLookup == [client |-> 0, job_id |-> 0]

NoResp ==
    [to |-> 0, kind |-> 0, code |-> ERROR_NONE, job_id |-> 0, status |-> 0,
     exit_code |-> 0, rows |-> <<>>]

(* ---------------------------------------------------------------------- *)
(* generate_job_id                                                         *)
(* ---------------------------------------------------------------------- *)
\* the counter without the "if (next_id == 0) next_id = 1" line
NextIdNoSkip(n) == (n + 1) % IdModulus

\* value of next_id after "id = next_id++; if (next_id == 0) next_id = 1"
NextIdAfter(n) ==
    IF (n + 1) % IdModulus = 0 THEN 1 ELSE (n + 1) % IdModulus

(* ---------------------------------------------------------------------- *)
(* Queue operations (each runs under jobs_mutex)                           *)
(* ---------------------------------------------------------------------- *)
\* index of the first node whose job_id matches, 0 when the walk reaches NULL
FindIdx(q, id) ==
    IF \E i \in 1..Len(q) : q[i].job_id = id
    THEN CHOOSE i \in 1..Len(q) :
            /\ q[i].job_id = id
            /\ \A k \in 1..(i - 1) : q[k].job_id # id
    ELSE 0

\* an add_job that links nothing
DropJobQ(q, job) == q

\* add_job: link the node at the tail
AddJobQ(q, job) == Append(q, job)

\* a dequeue that copies the head node and leaves it linked
KeepHeadQ(q) == q

\* get_next_job: unlink the head node and free it
GetNextJobQ(q) == Tail(q)

\* update_job_state
UpdateJobStateQ(q, id, state, t) ==
    LET i == FindIdx(q, id) IN
    IF i = 0 THEN q
    ELSE [q EXCEPT ![i] =
            [@ EXCEPT !.state = state,
                      !.start_time = IF state = JOB_STATE_RUNNING THEN t ELSE @,
                      !.end_time = IF state \in {JOB_STATE_COMPLETED,
                                                 JOB_STATE_FAILED,
                                                 JOB_STATE_CANCELLED}
                                   THEN t ELSE @]]

\* cancel_job
CancelJobQ(q, id, t) ==
    LET i == FindIdx(q, id) IN
    IF i = 0 THEN q
    ELSE [q EXCEPT ![i] = [@ EXCEPT !.state = JOB_STATE_CANCELLED,
                                    !.end_time = t]]

\* complete_job
CompleteJobQ(q, id, exit_code, t) ==
    LET i == FindIdx(q, id) IN
    IF i = 0 THEN q
    ELSE [q EXCEPT ![i] =
            [@ EXCEPT !.state = IF exit_code = 0 THEN JOB_STATE_COMPLETED
                                ELSE JOB_STATE_FAILED,
                      !.exit_code = exit_code,
                      !.end_time = t]]

\* the list walk of handle_kill_job_command
KillJobQ(q, id) ==
    LET i == FindIdx(q, id) IN
    IF i = 0 THEN q
    ELSE [q EXCEPT ![i] = [@ EXCEPT !.state = JOB_STATE_CANCELLED]]

\* the list walk of cleanup_inactive_client
CleanupClientJobsQ(q, cid) ==
    [i \in 1..Len(q) |->
        IF q[i].client_id = cid
        THEN [q[i] EXCEPT !.state = JOB_STATE_CANCELLED]
        ELSE q[i]]

\* cleanup_completed_jobs: which nodes the sweep unlinks
IsExpired(job, t) ==
    /\ job.state \in {JOB_STATE_COMPLETED, JOB_STATE_FAILED, JOB_STATE_CANCELLED}
    /\ (t - job.end_time) > MAX_COMPLETED_JOB_AGE

CleanupCompletedJobsQ(q, t) ==
    LET Keep(job) == ~IsExpired(job, t) IN SelectSeq(q, Keep)

\* set_job_priority
SetJobPriorityQ(q, id, priority) ==
    LET i == FindIdx(q, id) IN
    IF priority < JOB_PRIORITY_LOW \/ priority > JOB_PRIORITY_HIGH THEN q
    ELSE IF i = 0 THEN q
    ELSE [q EXCEPT ![i] = [@ EXCEPT !.priority = priority]]

\* reorder_queue_by_priority: one pass of the bubble sort from node i on;
\* two neighbours are swapped when both are queued and the first has the
\* lower priority
RECURSIVE BubblePassFrom(_, _)
BubblePassFrom(q, i) ==
    IF i >= Len(q) THEN q
    ELSE IF /\ q[i].state = JOB_STATE_QUEUED
            /\ q[i + 1].state = JOB_STATE_QUEUED
            /\ q[i].priority < q[i + 1].priority
         THEN BubblePassFrom([q EXCEPT ![i] = q[i + 1], ![i + 1] = q[i]], i + 1)
         ELSE BubblePassFrom(q, i + 1)

\* reorder_queue_by_priority: passes until one swaps nothing
RECURSIVE ReorderQ(_)
ReorderQ(q) ==
    IF Len(q) <= 1 THEN q
    ELSE LET pass == BubblePassFrom(q, 1) IN
         IF pass = q THEN q ELSE ReorderQ(pass)

\* rows of the ListJobs answer: one per node reachable from head
ListJobsRows(q) ==
    [i \in 1..Len(q) |-> [job_id |-> q[i].job_id, client_id |-> q[i].client_id,
                          state |-> q[i].state]]

(* ---------------------------------------------------------------------- *)
(* process_compilation_job: what the executor reports                      *)
(* ---------------------------------------------------------------------- *)
\* compile_source_code: pre is FALSE when no toolchain, work directory, validation
\* or command could be had (compile_exit_code keeps its calloc value 0)
CompileStep(pre, rc) ==
    IF ~pre THEN [result |-> -1, compile_exit_code |-> 0]
    ELSE [result |-> IF rc = 0 THEN 0 ELSE -1, compile_exit_code |-> rc]

\* execute_compiled_program
ExecStep(pre, rc) ==
    IF ~pre THEN [result |-> -1, exec_exit_code |-> 0]
    ELSE [result |-> IF rc = 0 THEN 0 ELSE -1, exec_exit_code |-> rc]

\* the switch on exec_mode and the exit code handed to complete_job
ProcessOutcome(mode, cpre, crc, epre, erc) ==
    LET c == CompileStep(cpre, crc)
        runs == mode = EXEC_MODE_COMPILE_AND_RUN /\ c.result = 0
        e == IF runs THEN ExecStep(epre, erc)
             ELSE [result |-> c.result, exec_exit_code |-> 0]
        result == IF mode = EXEC_MODE_COMPILE_ONLY THEN c.result ELSE e.result
    IN  [result |-> result,
         compile_exit_code |-> c.compile_exit_code,
         exec_exit_code |-> e.exec_exit_code,
         ran_exec |-> runs,
         complete_code |-> IF result = 0 THEN 0
                           ELSE IF c.compile_exit_code # 0
                                THEN c.compile_exit_code
                                ELSE e.exec_exit_code]

(* ---------------------------------------------------------------------- *)
(* Roster and counters whose definitions are outside the source tree       *)
(* (declared in server.h, called from client_handler.c)                    *)
(* ---------------------------------------------------------------------- *)
AddClient(cl, id, t) ==
    (id :> [state |-> CLIENT_STATE_CONNECTING, active_jobs |-> 0,
            fd_open |-> TRUE, last_activity |-> t]) @@ cl

RemoveClient(cl, id) == [c \in (DOMAIN cl) \ {id} |-> cl[c]]

UpdateStatsClientConnected(s) ==
    [s EXCEPT !.total_clients = @ + 1, !.active_clients = @ + 1]

UpdateStatsClientDisconnected(s) ==
    [s EXCEPT !.active_clients = IF @ > 0 THEN @ - 1 ELSE @]

UpdateStatsJobSubmitted(s) == s

(* ---------------------------------------------------------------------- *)
(* Message headers: the correlation_id field                               *)
(* (init_message_header, header_to_network and header_from_network are     *)
(* declared in protocol.h and defined outside the source tree; the wire    *)
(* form is the 32-bit field in network byte order, most significant byte   *)
(* first)                                                                  *)
(* ---------------------------------------------------------------------- *)
\* the i-th correlation id the peers put in their requests, as the four
\* bytes sent
WireId(i) == <<0, 0, i - 1, i>>

NoWire == [request |-> <<0, 0, 0, 0>>, response |-> <<0, 0, 0, 0>>]

HeaderFromNetwork(w) ==
    [correlation_id |-> ((w[1] * 256 + w[2]) * 256 + w[3]) * 256 + w[4]]

HeaderToNetwork(h) ==
    <<(h.correlation_id \div (256 * 256 * 256)) % 256,
      (h.correlation_id \div (256 * 256)) % 256,
      (h.correlation_id \div 256) % 256,
      h.correlation_id % 256>>

InitMessageHeader(correlation_id) == [correlation_id |-> correlation_id]

\* a send that stamps every response with correlation id 0
SendUncorrelated(correlation_id) == HeaderToNetwork(InitMessageHeader(0))

\* send_client_response: the header bytes written for a response
SendClientResponse(correlation_id) ==
    HeaderToNetwork(InitMessageHeader(correlation_id))

\* send_admin_response: the header bytes written for a response
SendAdminResponse(correlation_id) ==
    HeaderToNetwork(InitMessageHeader(correlation_id))

\* handle_client_message and the handler it dispatches to: the header is
\* read and converted, and the handler passes msg->header.correlation_id to
\* send_client_response
ClientExchange(w) ==
    [request |-> w,
     response |-> SendClientResponse(HeaderFromNetwork(w).correlation_id)]

\* the same for handle_admin_connection, handle_admin_message and
\* send_admin_response
AdminExchange(w) ==
    [request |-> w,
     response |-> SendAdminResponse(HeaderFromNetwork(w).correlation_id)]

(* ---------------------------------------------------------------------- *)
(* Frames: what handle_client_message and handle_admin_connection read     *)
(* ---------------------------------------------------------------------- *)
\* a complete, valid frame of a kind the protocol knows but the receiving
\* switch has no case for
WellFormedFrame ==
    [received |-> "full", magic_ok |-> TRUE, checksum_ok |-> TRUE,
     oversize |-> FALSE, kind |-> "unserved"]

NoFrame == [WellFormedFrame EXCEPT !.received = "none"]

\* frames a peer may send besides the requests served by the handlers below
FrameInputs ==
    { WellFormedFrame,
      [WellFormedFrame EXCEPT !.received = "short"],
      [WellFormedFrame EXCEPT !.magic_ok = FALSE],
      [WellFormedFrame EXCEPT !.checksum_ok = FALSE],
      [WellFormedFrame EXCEPT !.oversize = TRUE],
      [WellFormedFrame EXCEPT !.kind = "unknown"] }

\* validate_message_header (declared in protocol.h, defined outside the
\* source tree): magic, checksum and kind
ValidateMessageHeader(frame) ==
    frame.magic_ok /\ frame.checksum_ok /\ frame.kind # "unknown"

\* a receive path that lets every frame through to the switch
NoFrameRejected(frame) == FALSE

\* the "return -1" paths of handle_client_message and of
\* handle_admin_connection that a frame can take
FrameRejected(frame) ==
    \/ frame.received # "full"
    \/ ~ValidateMessageHeader(frame)
    \/ frame.oversize

\* a receive path that reports failure for every frame
EveryMessageFails(frame) == -1

\* what handle_client_message returns for such a frame: -1 when it is
\* rejected, else the result of send_client_error in the default case of
\* process_client_request, which is 0 (sends are taken to succeed)
HandleClientMessageResult(frame) == IF FrameRejected(frame) THEN -1 ELSE 0

(* ---------------------------------------------------------------------- *)
(* Helpers for the history variables                                       *)
(* ---------------------------------------------------------------------- *)
\* replies to the admin peer carry to = 0: no client has id 0
Reply(to, kind, code, job_id, status, exit_code) ==
    [to |-> to, kind |-> kind, code |-> code, job_id |-> job_id,
     status |-> status, exit_code |-> exit_code, rows |-> <<>>]

ErrorReply(to, code) == Reply(to, MSG_ERROR, code, 0, 0, 0)

Did(op, client, id, resp) ==
    [op |-> op, client |-> client, id |-> id, resp |-> resp,
     outcome |-> ProcessOutcome(EXEC_MODE_COMPILE_ONLY, FALSE, 0, FALSE, 0),
     frame |-> NoFrame]

\* a request that only reads was served: its reply is the value of the
\* handler's reply operator in the state it was served in
Served == Did("served", 0, 0, NoResp)

NewHist(cid, mode) ==
    [client_id |-> cid, mode |-> mode, phase |-> "queued", result |-> 1,
     cancel |-> "none", kill |-> "none", retired |-> FALSE]

\* note a cancel request in the history, with the phase the job was in
NoteCancel(h, id) ==
    IF id \in DOMAIN h /\ h[id].cancel = "none" /\ h[id].phase # "finished"
    THEN [h EXCEPT ![id].cancel = h[id].phase]
    ELSE h

\* note a KillJob served for the job, with the phase the job was in
NoteKill(h, id) ==
    IF id \in DOMAIN h /\ h[id].kill = "none" /\ h[id].phase # "finished"
    THEN [NoteCancel(h, id) EXCEPT ![id].kill = h[id].phase]
    ELSE NoteCancel(h, id)

NoteCancelAll(h, ids) ==
    [j \in DOMAIN h |-> IF j \in ids THEN NoteCancel(h, j)[j] ELSE h[j]]

QueueIds(q) == {q[i].job_id : i \in 1..Len(q)}

\* ids a request may name: every id handed out so far, and one that was not
IdInputs == DOMAIN hist \cup {next_id}

\* correlation ids a request may carry in this run
WireInputs == {WireId(i) : i \in 1..scope.corr}

(* ---------------------------------------------------------------------- *)
(* Initial state: after initialize_server and start_threads                *)
(* ---------------------------------------------------------------------- *)
InitServer ==
    /\ job_queue = <<>>
    /\ worker = [pc |-> "loop", job |-> NoJob]
    /\ clients = [c \in {} |-> 0]
    /\ next_client_id = 1
    /\ stats = [total_clients |-> 0, active_clients |-> 0, total_jobs |-> 0,
                active_jobs |-> 0, completed_jobs |-> 0, failed_jobs |-> 0]
    /\ admin = [fd_open |-> FALSE, authenticated |-> FALSE, pending |-> FALSE,
                open_sessions |-> 0, unread |-> FALSE]
    /\ now = StartTime
    /\ ticks = 0
    /\ hist = [j \in {} |-> 0]
    /\ issued = <<>>
    /\ last = Did("init", 0, 0, NoResp)
    /\ wire = NoWire
    /\ shutdown_requested = FALSE
    /\ threads = [main |-> "serving", admin |-> "running",
                  client |-> "running", lookup |-> NoLookup]
    /\ locks = [holder |-> [m \in {"clients_mutex", "jobs_mutex",
                                   "stats_mutex"} |-> "none"],
                todo |-> [t \in Threads |-> <<>>]]
    /\ list = [head |-> 0, tail |-> 0, count |-> 0,
               next |-> [n \in 1..MaxNodes |-> 0],
               job |-> [n \in 1..MaxNodes |-> NoJob],
               live |-> {}, in |-> {}]

InitCommon ==
    /\ scope \in Scopes
    /\ InitServer

Init ==
    /\ next_id = 1
    /\ base_id = 1
    /\ InitCommon

\* the same server after it has handed out all but WrapGap of the ids below the modulus
InitWrap ==
    /\ next_id = IdModulus - WrapGap
    /\ base_id = IdModulus - WrapGap
    /\ InitCommon

(* ---------------------------------------------------------------------- *)
(* Clock                                                                   *)
(* ---------------------------------------------------------------------- *)
Tick ==
    /\ ~shutdown_requested
    /\ ticks < scope.ticks
    /\ \E d \in TickSteps : now' = now + d
    /\ ticks' = ticks + 1
    /\ last' = Did("tick", 0, 0, NoResp)
    /\ UNCHANGED <<next_id, job_queue, worker, clients, next_client_id, stats,
                   admin, hist, issued, base_id, scope, wire,
                   shutdown_requested, threads, locks, list>>

(* ---------------------------------------------------------------------- *)
(* Client thread (client_handler.c)                                        *)
(* ---------------------------------------------------------------------- *)
Readable(c) == c \in DOMAIN clients /\ clients[c].fd_open

\* handle_client_message, once a whole frame is read:
\* client->last_activity = time(NULL)
Touch(cl, c, t) == [cl EXCEPT ![c].last_activity = t]

\* is_client_inactive
IsClientInactive(client, t) == (t - client.last_activity) > CLIENT_TIMEOUT

\* handle_new_client_connection
AcceptClient ==
    /\ ~shutdown_requested
    /\ next_client_id <= scope.clients
    /\ clients' = AddClient(clients, next_client_id, now)
    /\ next_client_id' = next_client_id + 1
    /\ stats' = UpdateStatsClientConnected(stats)
    /\ last' = Did("accept", next_client_id, 0, NoResp)
    /\ UNCHANGED <<next_id, job_queue, worker, admin, now, ticks, hist,
                   issued, base_id, scope, wire,
                   shutdown_requested, threads, locks, list>>

\* handle_hello_message
Hello(c, valid, w) ==
    /\ ~shutdown_requested
    /\ Readable(c)
    /\ wire' = ClientExchange(w)
    /\ IF ~valid
       THEN /\ last' = Did("hello", c, 0, ErrorReply(c, ERROR_INVALID_ARGUMENT))
            /\ clients' = Touch(clients, c, now)
       ELSE /\ clients' = [Touch(clients, c, now) EXCEPT ![c].state = CLIENT_STATE_AUTHENTICATED]
            /\ last' = Did("hello", c, 0, Reply(c, MSG_HELLO, ERROR_NONE, 0, 0, 0))
    /\ UNCHANGED <<next_id, job_queue, worker, next_client_id, stats, admin,
                   now, ticks, hist, issued, base_id, scope,
                   shutdown_requested, threads, locks, list>>

\* handle_file_upload_start
FileUploadStart(c, valid, too_large, w) ==
    /\ ~shutdown_requested
    /\ Readable(c)
    /\ wire' = ClientExchange(w)
    /\ IF clients[c].state \notin {CLIENT_STATE_AUTHENTICATED, CLIENT_STATE_IDLE}
       THEN /\ last' = Did("upload_start", c, 0, ErrorReply(c, ERROR_PERMISSION))
            /\ clients' = Touch(clients, c, now)
       ELSE IF ~valid
       THEN /\ last' = Did("upload_start", c, 0,
                           ErrorReply(c, ERROR_INVALID_ARGUMENT))
            /\ clients' = Touch(clients, c, now)
       ELSE IF too_large
       THEN /\ last' = Did("upload_start", c, 0,
                           ErrorReply(c, ERROR_QUOTA_EXCEEDED))
            /\ clients' = Touch(clients, c, now)
       ELSE /\ clients' = [Touch(clients, c, now) EXCEPT ![c].state = CLIENT_STATE_UPLOADING]
            /\ last' = Did("upload_start", c, 0,
                           Reply(c, MSG_ACK, ERROR_NONE, 0, 0, 0))
    /\ UNCHANGED <<next_id, job_queue, worker, next_client_id, stats, admin,
                   now, ticks, hist, issued, base_id, scope,
                   shutdown_requested, threads, locks, list>>

\* handle_file_upload_chunk
UploadChunkReply(cl, c, valid) ==
    IF cl[c].state # CLIENT_STATE_UPLOADING THEN ErrorReply(c, ERROR_PERMISSION)
    ELSE IF ~valid THEN ErrorReply(c, ERROR_INVALID_ARGUMENT)
    ELSE Reply(c, MSG_ACK, ERROR_NONE, 0, 0, 0)

\* the step that serves a chunk: the reply is UploadChunkReply for the chunk
\* read, and the session changes the same way whatever the chunk holds
FileUploadChunk(c, w) ==
    /\ ~shutdown_requested
    /\ Readable(c)
    /\ wire' = ClientExchange(w)
    /\ clients' = Touch(clients, c, now)
    /\ last' = Served
    /\ UNCHANGED <<next_id, job_queue, worker, next_client_id, stats, admin,
                   now, ticks, hist, issued, base_id, scope,
                   shutdown_requested, threads, locks, list>>

\* handle_file_upload_end
FileUploadEnd(c, w) ==
    /\ ~shutdown_requested
    /\ Readable(c)
    /\ wire' = ClientExchange(w)
    /\ IF clients[c].state # CLIENT_STATE_UPLOADING
       THEN /\ last' = Did("upload_end", c, 0, ErrorReply(c, ERROR_PERMISSION))
            /\ clients' = Touch(clients, c, now)
       ELSE /\ clients' = [Touch(clients, c, now) EXCEPT ![c].state = CLIENT_STATE_IDLE]
            /\ last' = Did("upload_end", c, 0,
                           Reply(c, MSG_ACK, ERROR_NONE, 0, 0, 0))
    /\ UNCHANGED <<next_id, job_queue, worker, next_client_id, stats, admin,
                   now, ticks, hist, issued, base_id, scope,
                   shutdown_requested, threads, locks, list>>

\* the job_info_t that handle_compile_request fills in
NewJob(id, cid, mode, t) ==
    [job_id |-> id, client_id |-> cid, state |-> JOB_STATE_QUEUED,
     mode |-> mode, priority |-> JOB_PRIORITY_NORMAL, start_time |-> 0,
     end_time |-> 0, process_id |-> 0, exit_code |-> 0]

\* a state test that lets every state submit
CompileAllowedAlways(state) == TRUE

\* the state test of handle_compile_request
CompileAllowed(state) == state = CLIENT_STATE_IDLE

\* a submission that wakes nobody
NoSignal(w) == w

\* add_job: pthread_cond_signal(&g_server.job_queue_cond) wakes the worker
\* if it waits on the condition
CondSignal(w) == [w EXCEPT !.pc = IF @ = "waiting" THEN "loop" ELSE @]

\* handle_compile_request, with generate_job_id and add_job (the node
\* allocation of add_job is taken to succeed)
CompileRequest(c, valid, mode, w) ==
    /\ ~shutdown_requested
    /\ Readable(c)
    /\ wire' = ClientExchange(w)
    /\ IF ~CompileAllowed(clients[c].state)
       THEN /\ last' = Did("compile", c, 0, ErrorReply(c, ERROR_PERMISSION))
            /\ clients' = Touch(clients, c, now)
            /\ UNCHANGED <<next_id, job_queue, worker, stats, hist, issued>>
       ELSE IF ~valid
       THEN /\ last' = Did("compile", c, 0,
                           ErrorReply(c, ERROR_INVALID_ARGUMENT))
            /\ clients' = Touch(clients, c, now)
            /\ UNCHANGED <<next_id, job_queue, worker, stats, hist, issued>>
       ELSE /\ Len(issued) < scope.jobs
            /\ next_id' = NextIdAfter(next_id)
            /\ issued' = Append(issued, next_id)
            /\ job_queue' = AddJobQ(job_queue, NewJob(next_id, c, mode, now))
            /\ hist' = (next_id :> NewHist(c, mode)) @@ hist
            /\ worker' = CondSignal(worker)
            /\ IF next_id = 0
               THEN \* add_job returned the job's id, which is 0
                    /\ stats' = [stats EXCEPT !.total_jobs = @ + 1,
                                              !.active_jobs = @ + 1]
                    /\ last' = Did("compile", c, next_id,
                                   ErrorReply(c, ERROR_INTERNAL))
                    /\ clients' = Touch(clients, c, now)
               ELSE /\ stats' = UpdateStatsJobSubmitted(
                                  [stats EXCEPT !.total_jobs = @ + 1,
                                                !.active_jobs = @ + 1])
                    /\ clients' = [Touch(clients, c, now) EXCEPT
                                     ![c].state = CLIENT_STATE_PROCESSING,
                                     ![c].active_jobs = @ + 1]
                    /\ last' = Did("compile", c, next_id,
                                   Reply(c, MSG_COMPILE_RESPONSE, ERROR_NONE,
                                         next_id, JOB_STATUS_QUEUED, 0))
    /\ UNCHANGED <<next_client_id, admin, now, ticks, base_id, scope,
                   shutdown_requested, threads, locks, list>>

\* handle_status_request
StatusReply(q, c, valid, id) ==
    LET i == FindIdx(q, id) IN
    IF ~valid THEN ErrorReply(c, ERROR_INVALID_ARGUMENT)
    ELSE IF i = 0 THEN ErrorReply(c, ERROR_NOT_FOUND)
    ELSE IF q[i].client_id # c THEN ErrorReply(c, ERROR_PERMISSION)
    ELSE Reply(c, MSG_STATUS_RESPONSE, ERROR_NONE, q[i].job_id, q[i].state, 0)

\* the step that serves a StatusRequest: the reply is StatusReply for the
\* request read, and the session changes the same way whatever it names
StatusRequest(c, w) ==
    /\ ~shutdown_requested
    /\ Readable(c)
    /\ wire' = ClientExchange(w)
    /\ clients' = Touch(clients, c, now)
    /\ last' = Served
    /\ UNCHANGED <<next_id, job_queue, worker, next_client_id, stats, admin,
                   now, ticks, hist, issued, base_id, scope,
                   shutdown_requested, threads, locks, list>>

\* handle_result_request
ResultReply(q, c, valid, id) ==
    LET i == FindIdx(q, id) IN
    IF ~valid THEN ErrorReply(c, ERROR_INVALID_ARGUMENT)
    ELSE IF i = 0 THEN ErrorReply(c, ERROR_NOT_FOUND)
    ELSE IF q[i].client_id # c THEN ErrorReply(c, ERROR_PERMISSION)
    ELSE IF q[i].state # JOB_STATE_COMPLETED /\ q[i].state # JOB_STATE_FAILED
         THEN ErrorReply(c, ERROR_PERMISSION)
    ELSE Reply(c, MSG_RESULT_RESPONSE, ERROR_NONE, q[i].job_id, q[i].state,
               q[i].exit_code)

\* the step that serves a ResultRequest: the reply is ResultReply for the
\* request read, and the session changes the same way whatever it names
ResultRequest(c, w) ==
    /\ ~shutdown_requested
    /\ Readable(c)
    /\ wire' = ClientExchange(w)
    /\ clients' = Touch(clients, c, now)
    /\ last' = Served
    /\ UNCHANGED <<next_id, job_queue, worker, next_client_id, stats, admin,
                   now, ticks, hist, issued, base_id, scope,
                   shutdown_requested, threads, locks, list>>

\* MSG_PING in process_client_request
PingReply(c) == Reply(c, MSG_PONG, ERROR_NONE, 0, 0, 0)

Ping(c, w) ==
    /\ ~shutdown_requested
    /\ Readable(c)
    /\ wire' = ClientExchange(w)
    /\ clients' = Touch(clients, c, now)
    /\ last' = Served
    /\ UNCHANGED <<next_id, job_queue, worker, next_client_id, stats, admin,
                   now, ticks, hist, issued, base_id, scope,
                   shutdown_requested, threads, locks, list>>

\* handle_client_message for a frame no handler above serves: a rejected
\* frame makes client_thread_handler call cleanup_inactive_client, any other
\* reaches the default case of process_client_request
ClientFrame(c, frame, w) ==
    /\ ~shutdown_requested
    /\ scope.frames
    /\ Readable(c)
    /\ IF FrameRejected(frame)
       THEN /\ last' = [Did("framing_error", c, 0, NoResp)
                          EXCEPT !.frame = frame]
            /\ UNCHANGED wire
       ELSE /\ last' = [Did("unserved_kind", c, 0,
                            ErrorReply(c, ERROR_INVALID_ARGUMENT))
                          EXCEPT !.frame = frame]
            /\ wire' = ClientExchange(w)
    /\ IF HandleClientMessageResult(frame) # 0
       THEN /\ job_queue' = CleanupClientJobsQ(job_queue, c)
            /\ hist' = NoteCancelAll(hist, {j \in DOMAIN hist :
                                              hist[j].client_id = c})
            /\ clients' = RemoveClient(clients, c)
            /\ stats' = UpdateStatsClientDisconnected(stats)
       ELSE /\ clients' = IF FrameRejected(frame) THEN clients
                          ELSE Touch(clients, c, now)
            /\ UNCHANGED <<job_queue, hist, stats>>
    /\ UNCHANGED <<next_id, worker, next_client_id, admin, now, ticks, issued,
                   base_id, scope,
                   shutdown_requested, threads, locks, list>>

\* cleanup_inactive_client, reached when the peer closed the connection
ClientGone(c) ==
    /\ ~shutdown_requested
    /\ Readable(c)
    /\ job_queue' = CleanupClientJobsQ(job_queue, c)
    /\ hist' = NoteCancelAll(hist, {j \in DOMAIN hist : hist[j].client_id = c})
    /\ clients' = RemoveClient(clients, c)
    /\ stats' = UpdateStatsClientDisconnected(stats)
    /\ last' = Did("client_gone", c, 0, NoResp)
    /\ UNCHANGED <<next_id, worker, next_client_id, admin, now, ticks, issued,
                   base_id, scope, wire,
                   shutdown_requested, threads, locks, list>>

\* the sessions cleanup_inactive_clients tears down
InactiveClients(cl, t) == {c \in DOMAIN cl : IsClientInactive(cl[c], t)}

\* the list walk of cleanup_inactive_client for each session of cs
RECURSIVE CleanupAllJobsQ(_, _)
CleanupAllJobsQ(q, cs) ==
    IF cs = {} THEN q
    ELSE LET c == CHOOSE x \in cs : TRUE
         IN  CleanupAllJobsQ(CleanupClientJobsQ(q, c), cs \ {c})

RECURSIVE DisconnectedStats(_, _)
DisconnectedStats(s, n) ==
    IF n = 0 THEN s
    ELSE DisconnectedStats(UpdateStatsClientDisconnected(s), n - 1)

\* poll returned 0 in client_thread_handler: cleanup_inactive_clients (a
\* sweep that finds no inactive session changes nothing)
CleanupInactiveClients ==
    /\ ~shutdown_requested
    /\ InactiveClients(clients, now) # {}
    /\ LET gone == InactiveClients(clients, now) IN
       /\ job_queue' = CleanupAllJobsQ(job_queue, gone)
       /\ hist' = NoteCancelAll(hist, {j \in DOMAIN hist :
                                         hist[j].client_id \in gone})
       /\ clients' = [c \in (DOMAIN clients) \ gone |-> clients[c]]
       /\ stats' = DisconnectedStats(stats, Cardinality(gone))
    /\ last' = Did("cleanup_inactive_clients", 0, 0, NoResp)
    /\ UNCHANGED <<next_id, worker, next_client_id, admin, now, ticks, issued,
                   base_id, scope, wire,
                   shutdown_requested, threads, locks, list>>

(* ---------------------------------------------------------------------- *)
(* Worker thread (job_processor_thread)                                    *)
(* ---------------------------------------------------------------------- *)
\* the counters the worker updates under stats_mutex once a job is processed
WorkerStatsUpdate(s, job) ==
    [s EXCEPT
       !.completed_jobs = IF job.state = JOB_STATE_COMPLETED THEN @ + 1 ELSE @,
       !.failed_jobs = IF job.state = JOB_STATE_COMPLETED THEN @ ELSE @ + 1,
       !.active_jobs = IF @ > 0 THEN @ - 1 ELSE @]

SetPhase(h, id, phase) ==
    IF id \in DOMAIN h THEN [h EXCEPT ![id].phase = phase] ELSE h

\* top of the loop: get_next_job (the allocation of the copy is taken to
\* succeed) and, with a job in hand, process_compilation_job up to the start
\* of the executor
WorkerGetNext(alloc_ok) ==
    /\ ~shutdown_requested
    /\ worker.pc = "loop"
    /\ IF job_queue = <<>>
       THEN /\ worker' = [worker EXCEPT !.pc = "nojob"]
            /\ UNCHANGED <<job_queue, hist, stats>>
       ELSE LET job == Head(job_queue)
                q1 == UpdateJobStateQ(GetNextJobQ(job_queue), job.job_id,
                                      JOB_STATE_RUNNING, now)
            IN  IF alloc_ok
                THEN /\ job_queue' = q1
                     /\ worker' = [pc |-> "executing", job |-> job]
                     /\ hist' = SetPhase(hist, job.job_id, "running")
                     /\ UNCHANGED stats
                ELSE \* create_compilation_job returned NULL
                     /\ job_queue' = UpdateJobStateQ(q1, job.job_id,
                                                     JOB_STATE_FAILED, now)
                     /\ worker' = [pc |-> "loop", job |-> NoJob]
                     /\ hist' = [SetPhase(hist, job.job_id, "finished")
                                   EXCEPT ![job.job_id].result = -1]
                     /\ stats' = WorkerStatsUpdate(stats, job)
    /\ last' = Did("get_next_job", 0, 0, NoResp)
    /\ UNCHANGED <<next_id, clients, next_client_id, admin, now, ticks,
                   issued, base_id, scope, wire,
                   shutdown_requested, threads, locks, list>>

\* "if (count == 0) pthread_cond_wait(...)" after get_next_job returned NULL
WorkerCheckEmpty ==
    /\ worker.pc = "nojob"
    /\ worker' = [worker EXCEPT !.pc = IF Len(job_queue) = 0 THEN "waiting"
                                       ELSE "loop"]
    /\ last' = Did("check_empty", 0, 0, NoResp)
    /\ UNCHANGED <<next_id, job_queue, clients, next_client_id, stats, admin,
                   now, ticks, hist, issued, base_id, scope, wire,
                   shutdown_requested, threads, locks, list>>

\* process_compilation_job from the executor's return to its own return, and
\* the statistics update that ends the loop body
WorkerFinish(cpre, crc, epre, erc) ==
    /\ worker.pc = "executing"
    /\ LET o == ProcessOutcome(worker.job.mode, cpre, crc, epre, erc)
           job == [worker.job EXCEPT !.exit_code = o.exec_exit_code,
                                     !.process_id = -1]
       IN
       /\ job_queue' = CompleteJobQ(job_queue, job.job_id, o.complete_code, now)
       /\ stats' = WorkerStatsUpdate(stats, job)
       /\ worker' = [pc |-> "loop", job |-> NoJob]
       /\ hist' = [SetPhase(hist, job.job_id, "finished")
                     EXCEPT ![job.job_id].result = o.result]
       /\ last' = [Did("finish_job", 0, job.job_id, NoResp)
                     EXCEPT !.outcome = o]
    /\ UNCHANGED <<next_id, clients, next_client_id, admin, now, ticks,
                   issued, base_id, scope, wire,
                   shutdown_requested, threads, locks, list>>

(* ---------------------------------------------------------------------- *)
(* Scheduler entry points no thread of the server calls by itself          *)
(* ---------------------------------------------------------------------- *)
\* cancel_job
CancelJob(id) ==
    /\ ~shutdown_requested
    /\ job_queue' = CancelJobQ(job_queue, id, now)
    /\ hist' = NoteCancel(hist, id)
    /\ last' = Did("cancel_job", 0, id, NoResp)
    /\ UNCHANGED <<next_id, worker, clients, next_client_id, stats, admin,
                   now, ticks, issued, base_id, scope, wire,
                   shutdown_requested, threads, locks, list>>

\* cleanup_completed_jobs
CleanupCompletedJobs ==
    /\ ~shutdown_requested
    /\ job_queue' = CleanupCompletedJobsQ(job_queue, now)
    /\ hist' = [j \in DOMAIN hist |->
                  IF j \in QueueIds(job_queue) \ QueueIds(job_queue')
                  THEN [hist[j] EXCEPT !.retired = TRUE] ELSE hist[j]]
    /\ last' = Did("cleanup_completed_jobs", 0, 0, NoResp)
    /\ UNCHANGED <<next_id, worker, clients, next_client_id, stats, admin,
                   now, ticks, issued, base_id, scope, wire,
                   shutdown_requested, threads, locks, list>>

\* priorities a caller may pass: one in range, one above the range
PriorityInputs == {JOB_PRIORITY_HIGH, JOB_PRIORITY_HIGH + 1}

\* set_job_priority
SetJobPriority(id, priority) ==
    /\ ~shutdown_requested
    /\ scope.prio
    /\ job_queue' = SetJobPriorityQ(job_queue, id, priority)
    /\ last' = Did("set_job_priority", 0, id, NoResp)
    /\ UNCHANGED <<next_id, worker, clients, next_client_id, stats, admin,
                   now, ticks, hist, issued, base_id, scope, wire,
                   shutdown_requested, threads, locks, list>>

\* reorder_queue_by_priority
ReorderQueueByPriority ==
    /\ ~shutdown_requested
    /\ scope.prio
    /\ job_queue' = ReorderQ(job_queue)
    /\ last' = Did("reorder_queue", 0, 0, NoResp)
    /\ UNCHANGED <<next_id, worker, clients, next_client_id, stats, admin,
                   now, ticks, hist, issued, base_id, scope, wire,
                   shutdown_requested, threads, locks, list>>

(* ---------------------------------------------------------------------- *)
(* Admin thread (admin_handler.c)                                          *)
(* ---------------------------------------------------------------------- *)
\* a peer connects to the control socket: the listener becomes readable
AdminPeerConnects ==
    /\ ~shutdown_requested
    /\ scope.admin
    /\ ~admin.pending
    /\ admin' = [admin EXCEPT !.pending = TRUE]
    /\ last' = Did("admin_peer", 0, 0, NoResp)
    /\ UNCHANGED <<next_id, job_queue, worker, clients, next_client_id, stats,
                   now, ticks, hist, issued, base_id, scope, wire,
                   shutdown_requested, threads, locks, list>>

\* an admin thread that accepts whenever the listener is readable
AcceptsAnyTime(adm) == TRUE

\* admin_thread_handler: "if (client_fd == -1)" before accept
CanAccept(adm) == ~adm.fd_open

\* admin_thread_handler: listener readable and no session, so accept
AdminAccept ==
    /\ ~shutdown_requested
    /\ admin.pending /\ CanAccept(admin)
    /\ admin' = [fd_open |-> TRUE, authenticated |-> FALSE, pending |-> FALSE,
                 open_sessions |-> admin.open_sessions + 1, unread |-> FALSE]
    /\ last' = Did("admin_accept", 0, 0, NoResp)
    /\ UNCHANGED <<next_id, job_queue, worker, clients, next_client_id, stats,
                   now, ticks, hist, issued, base_id, scope, wire,
                   shutdown_requested, threads, locks, list>>

\* the thread reads the session's socket only when the listener is readable
AdminServes == admin.fd_open /\ admin.pending

\* MSG_ADMIN_CONNECT
AdminConnect(w) ==
    /\ ~shutdown_requested
    /\ AdminServes
    /\ wire' = AdminExchange(w)
    /\ admin' = [admin EXCEPT !.authenticated = TRUE]
    /\ last' = Did("admin_connect", 0, 0,
                   Reply(0, MSG_ACK, ERROR_NONE, 0, 0, 0))
    /\ UNCHANGED <<next_id, job_queue, worker, clients, next_client_id, stats,
                   now, ticks, hist, issued, base_id, scope,
                   shutdown_requested, threads, locks, list>>

\* MSG_ADMIN_DISCONNECT, or the peer closing: close and cleanup_admin_session
AdminDisconnect(w) ==
    /\ ~shutdown_requested
    /\ AdminServes
    /\ wire' = AdminExchange(w)
    /\ admin' = [admin EXCEPT !.fd_open = FALSE, !.authenticated = FALSE,
                              !.open_sessions = @ - 1]
    /\ last' = Did("admin_disconnect", 0, 0,
                   Reply(0, MSG_ACK, ERROR_NONE, 0, 0, 0))
    /\ UNCHANGED <<next_id, job_queue, worker, clients, next_client_id, stats,
                   now, ticks, hist, issued, base_id, scope,
                   shutdown_requested, threads, locks, list>>

\* handle_admin_connection for a frame no case below serves: a rejected
\* frame makes admin_thread_handler close the session, any other reaches the
\* default case of handle_admin_message
AdminFrame(frame, w) ==
    /\ ~shutdown_requested
    /\ scope.frames
    /\ AdminServes
    /\ IF FrameRejected(frame)
       THEN /\ admin' = [admin EXCEPT !.fd_open = FALSE,
                                      !.authenticated = FALSE,
                                      !.open_sessions = @ - 1]
            /\ last' = [Did("admin_framing_error", 0, 0, NoResp)
                          EXCEPT !.frame = frame]
            /\ UNCHANGED wire
       ELSE /\ last' = [Did("admin_unserved_kind", 0, 0,
                            ErrorReply(0, ERROR_INVALID_ARGUMENT))
                          EXCEPT !.frame = frame]
            /\ wire' = AdminExchange(w)
            /\ UNCHANGED admin
    /\ UNCHANGED <<next_id, job_queue, worker, clients, next_client_id, stats,
                   now, ticks, hist, issued, base_id, scope,
                   shutdown_requested, threads, locks, list>>

\* an admin thread that takes every session for an authenticated one
AlwaysAuthenticated(adm) == TRUE

\* handle_admin_message: the test "if (!g_admin_session.authenticated)" at
\* the head of every command case
Authenticated(adm) == adm.authenticated

\* MSG_ADMIN_KILL_JOB and handle_kill_job_command
AdminKillJob(id, force, w) ==
    /\ ~shutdown_requested
    /\ AdminServes
    /\ wire' = AdminExchange(w)
    /\ IF ~Authenticated(admin)
       THEN /\ last' = Did("kill_job", 0, id, ErrorReply(0, ERROR_PERMISSION))
            /\ UNCHANGED <<job_queue, hist>>
       ELSE /\ job_queue' = KillJobQ(job_queue, id)
            /\ hist' = NoteKill(hist, id)
            /\ last' = Did("kill_job", 0, id,
                           IF FindIdx(job_queue, id) = 0
                           THEN ErrorReply(0, ERROR_NOT_FOUND)
                           ELSE Reply(0, MSG_ACK, ERROR_NONE, 0, 0, 0))
    /\ UNCHANGED <<next_id, worker, clients, next_client_id, stats, admin,
                   now, ticks, issued, base_id, scope,
                   shutdown_requested, threads, locks, list>>

\* MSG_ADMIN_LIST_JOBS and handle_list_jobs_command
ListJobsReply(adm, q) ==
    IF ~Authenticated(adm) THEN ErrorReply(0, ERROR_PERMISSION)
    ELSE [Reply(0, MSG_ADMIN_LIST_JOBS, ERROR_NONE, 0, 0, 0)
            EXCEPT !.rows = ListJobsRows(q)]

AdminListJobs(w) ==
    /\ ~shutdown_requested
    /\ AdminServes
    /\ wire' = AdminExchange(w)
    /\ last' = Served
    /\ UNCHANGED <<next_id, job_queue, worker, clients, next_client_id, stats,
                   admin, now, ticks, hist, issued, base_id, scope,
                   shutdown_requested, threads, locks, list>>

\* MSG_ADMIN_SERVER_STATS and handle_server_stats_command
ServerStatsReply(adm, s) ==
    IF ~Authenticated(adm) THEN ErrorReply(0, ERROR_PERMISSION)
    ELSE [to |-> 0, kind |-> MSG_ADMIN_SERVER_STATS, code |-> ERROR_NONE,
          stats |-> s]

AdminServerStats(w) ==
    /\ ~shutdown_requested
    /\ AdminServes
    /\ wire' = AdminExchange(w)
    /\ last' = Served
    /\ UNCHANGED <<next_id, job_queue, worker, clients, next_client_id, stats,
                   admin, now, ticks, hist, issued, base_id, scope,
                   shutdown_requested, threads, locks, list>>

\* MSG_ADMIN_DISCONNECT_CLIENT and handle_disconnect_client_command
AdminDisconnectClient(cid, force, w) ==
    /\ ~shutdown_requested
    /\ AdminServes
    /\ wire' = AdminExchange(w)
    /\ IF ~Authenticated(admin)
       THEN /\ last' = Did("disconnect_client", cid, 0,
                           ErrorReply(0, ERROR_PERMISSION))
            /\ UNCHANGED <<clients, stats>>
       ELSE IF cid \notin DOMAIN clients
       THEN /\ last' = Did("disconnect_client", cid, 0,
                           ErrorReply(0, ERROR_NOT_FOUND))
            /\ UNCHANGED <<clients, stats>>
       ELSE /\ clients' = [clients EXCEPT
                             ![cid].state = CLIENT_STATE_DISCONNECTING,
                             ![cid].fd_open = IF force THEN FALSE ELSE @]
            /\ stats' = [stats EXCEPT
                           !.active_clients = IF @ > 0 THEN @ - 1 ELSE @]
            /\ last' = Did("disconnect_client", cid, 0,
                           Reply(0, MSG_ACK, ERROR_NONE, 0, 0, 0))
    /\ UNCHANGED <<next_id, job_queue, worker, next_client_id, admin, now,
                   ticks, hist, issued, base_id, scope,
                   shutdown_requested, threads, locks, list>>

\* rows of the ListClients answer: one per session in the roster
ListClientsRows(cl) ==
    {[client_id |-> c, state |-> cl[c].state, active_jobs |-> cl[c].active_jobs]
       : c \in DOMAIN cl}

\* MSG_ADMIN_LIST_CLIENTS and handle_list_clients_command
ListClientsReply(adm, cl) ==
    IF ~Authenticated(adm) THEN ErrorReply(0, ERROR_PERMISSION)
    ELSE [to |-> 0, kind |-> MSG_ADMIN_LIST_CLIENTS, code |-> ERROR_NONE,
          rows |-> ListClientsRows(cl)]

AdminListClients(w) ==
    /\ ~shutdown_requested
    /\ AdminServes
    /\ wire' = AdminExchange(w)
    /\ last' = Served
    /\ UNCHANGED <<next_id, job_queue, worker, clients, next_client_id, stats,
                   admin, now, ticks, hist, issued, base_id, scope,
                   shutdown_requested, threads, locks, list>>

\* MSG_ADMIN_CONFIG_GET, MSG_ADMIN_CONFIG_SET and handle_config_command: the
\* answer is a text, and no configuration value is written
ConfigReply(adm) ==
    IF ~Authenticated(adm) THEN ErrorReply(0, ERROR_PERMISSION)
    ELSE Reply(0, MSG_ADMIN_CONFIG_GET, ERROR_NONE, 0, 0, 0)

AdminConfig(w) ==
    /\ ~shutdown_requested
    /\ AdminServes
    /\ wire' = AdminExchange(w)
    /\ last' = Served
    /\ UNCHANGED <<next_id, job_queue, worker, clients, next_client_id, stats,
                   admin, now, ticks, hist, issued, base_id, scope,
                   shutdown_requested, threads, locks, list>>

\* MSG_ADMIN_SERVER_SHUTDOWN and handle_server_shutdown_command: the flag is
\* set after the Ack, and the -1 returned makes admin_thread_handler close
\* the session (a forced shutdown ends the process at once)
AdminShutdown(w) ==
    /\ ~shutdown_requested
    /\ AdminServes
    /\ wire' = AdminExchange(w)
    /\ IF ~Authenticated(admin)
       THEN /\ last' = Did("admin_shutdown", 0, 0,
                           ErrorReply(0, ERROR_PERMISSION))
            /\ UNCHANGED <<admin, shutdown_requested>>
       ELSE /\ shutdown_requested' = TRUE
            /\ admin' = [admin EXCEPT !.fd_open = FALSE,
                                      !.authenticated = FALSE,
                                      !.open_sessions = @ - 1]
            /\ last' = Did("admin_shutdown", 0, 0,
                           Reply(0, MSG_ACK, ERROR_NONE, 0, 0, 0))
    /\ UNCHANGED <<next_id, job_queue, worker, clients, next_client_id, stats,
                   now, ticks, hist, issued, base_id, scope, threads, locks, list>>

\* what the executor can report: a compiler that was not started has no
\* exit status, a program is started only after a compilation that exited 0,
\* and a program that was not started has no exit status
CompileCodes(cpre) == IF cpre THEN ExitCodes ELSE {0}

ExecPreconditions(cpre, crc) == IF cpre /\ crc = 0 THEN BOOLEAN ELSE {FALSE}

ExecCodes(epre) == IF epre THEN ExitCodes ELSE {0}

(* ---------------------------------------------------------------------- *)
(* Specification                                                           *)
(* ---------------------------------------------------------------------- *)
ClientIds == 1..MaxClients

Next ==
    \/ Tick
    \/ AcceptClient
    \/ \E c \in ClientIds, valid \in BOOLEAN, w \in WireInputs :
          Hello(c, valid, w)
    \/ \E c \in ClientIds, valid \in BOOLEAN, big \in BOOLEAN,
          w \in WireInputs :
          FileUploadStart(c, valid, big, w)
    \/ \E c \in ClientIds, w \in WireInputs : FileUploadChunk(c, w)
    \/ \E c \in ClientIds, w \in WireInputs : FileUploadEnd(c, w)
    \/ \E c \in ClientIds, valid \in BOOLEAN, mode \in Modes,
          w \in WireInputs :
          CompileRequest(c, valid, mode, w)
    \/ \E c \in ClientIds, w \in WireInputs : StatusRequest(c, w)
    \/ \E c \in ClientIds, w \in WireInputs : ResultRequest(c, w)
    \/ \E c \in ClientIds, w \in WireInputs : Ping(c, w)
    \/ \E c \in ClientIds, frame \in FrameInputs, w \in WireInputs :
          ClientFrame(c, frame, w)
    \/ \E c \in ClientIds : ClientGone(c)
    \/ CleanupInactiveClients
    \/ \E ok \in BOOLEAN : WorkerGetNext(ok)
    \/ WorkerCheckEmpty
    \/ \E cpre \in BOOLEAN :
          \E crc \in CompileCodes(cpre) :
             \E epre \in ExecPreconditions(cpre, crc) :
                \E erc \in ExecCodes(epre) :
                   WorkerFinish(cpre, crc, epre, erc)
    \/ \E id \in IdInputs : CancelJob(id)
    \/ CleanupCompletedJobs
    \/ \E id \in IdInputs, priority \in PriorityInputs :
          SetJobPriority(id, priority)
    \/ ReorderQueueByPriority
    \/ AdminPeerConnects
    \/ AdminAccept
    \/ \E frame \in FrameInputs, w \in WireInputs : AdminFrame(frame, w)
    \/ \E w \in WireInputs : AdminConnect(w)
    \/ \E w \in WireInputs : AdminDisconnect(w)
    \/ \E id \in IdInputs, force \in BOOLEAN, w \in WireInputs :
          AdminKillJob(id, force, w)
    \/ \E w \in WireInputs : AdminListJobs(w)
    \/ \E w \in WireInputs : AdminServerStats(w)
    \/ \E c \in ClientIds, force \in BOOLEAN, w \in WireInputs :
          AdminDisconnectClient(c, force, w)
    \/ \E w \in WireInputs : AdminListClients(w)
    \/ \E w \in WireInputs : AdminConfig(w)
    \/ \E w \in WireInputs : AdminShutdown(w)

Spec == Init /\ [][Next]_vars

SpecWrap == InitWrap /\ [][Next]_vars

(* ---------------------------------------------------------------------- *)
(* The client thread alone, with sessions that only connect, ping and     *)
(* leave while the clock advances                                          *)
(* ---------------------------------------------------------------------- *)
IdleScope ==
    [clients |-> MaxClients, jobs |-> 0, ticks |-> MaxTicks, admin |-> FALSE,
     prio |-> FALSE, corr |-> MaxCorr, frames |-> FALSE]

InitIdle ==
    /\ next_id = 1
    /\ base_id = 1
    /\ scope = IdleScope
    /\ InitServer

\* one pass of the loop of client_thread_handler: poll returns an event,
\* which is handled, or returns 0 after a second without any, and then
\* cleanup_inactive_clients runs
ClientThreadStep ==
    \/ AcceptClient
    \/ \E c \in ClientIds, w \in WireInputs : Ping(c, w)
    \/ \E c \in ClientIds : ClientGone(c)
    \/ CleanupInactiveClients

NextIdle ==
    \/ Tick
    \/ ClientThreadStep

\* the thread keeps running, so its loop is passed again and again; which
\* branch a pass takes is decided by the traffic, so no branch is owed a turn
SpecIdle == InitIdle /\ [][NextIdle]_vars /\ WF_vars(ClientThreadStep)

(* ---------------------------------------------------------------------- *)
(* The threads start_threads creates, serving one session that submits one *)
(* job.  cleanup_completed_jobs is a function no thread of the server      *)
(* calls: a caller may run it at any time, and nothing schedules it        *)
(* ---------------------------------------------------------------------- *)
RetentionScope ==
    [clients |-> 1, jobs |-> 1, ticks |-> MaxTicks, admin |-> FALSE,
     prio |-> FALSE, corr |-> 1, frames |-> FALSE]

InitRetention ==
    /\ next_id = 1
    /\ base_id = 1
    /\ scope = RetentionScope
    /\ InitServer

\* client_thread_handler serving the requests that lead to a submission
SubmitStep ==
    \/ \E c \in ClientIds, valid \in BOOLEAN, w \in WireInputs :
          Hello(c, valid, w)
    \/ \E c \in ClientIds, valid \in BOOLEAN, big \in BOOLEAN,
          w \in WireInputs :
          FileUploadStart(c, valid, big, w)
    \/ \E c \in ClientIds, w \in WireInputs : FileUploadEnd(c, w)
    \/ \E c \in ClientIds, valid \in BOOLEAN, mode \in Modes,
          w \in WireInputs :
          CompileRequest(c, valid, mode, w)

\* job_processor_thread
WorkerStep ==
    \/ \E ok \in BOOLEAN : WorkerGetNext(ok)
    \/ WorkerCheckEmpty
    \/ \E cpre \in BOOLEAN :
          \E crc \in CompileCodes(cpre) :
             \E epre \in ExecPreconditions(cpre, crc) :
                \E erc \in ExecCodes(epre) :
                   WorkerFinish(cpre, crc, epre, erc)

NextRetention ==
    \/ Tick
    \/ ClientThreadStep
    \/ SubmitStep
    \/ WorkerStep
    \/ CleanupCompletedJobs

SpecRetention ==
    /\ InitRetention
    /\ [][NextRetention]_vars
    /\ WF_vars(ClientThreadStep \/ SubmitStep)
    /\ WF_vars(WorkerStep)

(* ---------------------------------------------------------------------- *)
(* handle_status_request in two steps, find_job and the reads through the  *)
(* pointer it returned, with the worker running beside the client thread   *)
(* ---------------------------------------------------------------------- *)
\* handle_status_request up to the return of find_job, which has released
\* jobs_mutex: NULL is answered at once, a pointer is kept
StatusFind(c, id, w) ==
    /\ ~shutdown_requested
    /\ Readable(c)
    /\ threads.lookup = NoLookup
    /\ wire' = ClientExchange(w)
    /\ clients' = Touch(clients, c, now)
    /\ IF FindIdx(job_queue, id) = 0
       THEN /\ last' = Did("status", c, id, ErrorReply(c, ERROR_NOT_FOUND))
            /\ UNCHANGED threads
       ELSE /\ last' = Did("status_find", c, id, NoResp)
            /\ threads' = [threads EXCEPT
                             !.lookup = [client |-> c, job_id |-> id]]
    /\ UNCHANGED <<next_id, job_queue, worker, next_client_id, stats, admin,
                   now, ticks, hist, issued, base_id, scope,
                   shutdown_requested, locks, list>>

\* handle_status_request from the test of job->client_id on: the fields are
\* read through the pointer without the mutex.  When the node was freed in
\* between, the reads are of freed memory and may give any owner and state
StatusRead ==
    /\ threads.lookup # NoLookup
    /\ LET c == threads.lookup.client
           id == threads.lookup.job_id
       IN  IF FindIdx(job_queue, id) # 0
           THEN last' = Did("status_read", c, id,
                            StatusReply(job_queue, c, TRUE, id))
           ELSE \E owned \in BOOLEAN, state \in JobStates :
                   last' = Did("status_read", c, id,
                               IF owned
                               THEN Reply(c, MSG_STATUS_RESPONSE, ERROR_NONE,
                                          id, state, 0)
                               ELSE ErrorReply(c, ERROR_PERMISSION))
    /\ threads' = [threads EXCEPT !.lookup = NoLookup]
    /\ UNCHANGED <<next_id, job_queue, worker, clients, next_client_id, stats,
                   admin, now, ticks, hist, issued, base_id, scope, wire,
                   shutdown_requested, locks, list>>

\* the client thread is in one handler at a time
NextLookup ==
    \/ threads.lookup = NoLookup /\ AcceptClient
    \/ threads.lookup = NoLookup /\ SubmitStep
    \/ \E c \in ClientIds, id \in IdInputs, w \in WireInputs :
          StatusFind(c, id, w)
    \/ StatusRead
    \/ WorkerStep

SpecLookup == InitRetention /\ [][NextLookup]_vars

(* ---------------------------------------------------------------------- *)
(* The mutexes: each thread follows, one call at a time, the lock and      *)
(* unlock calls of a path through its loop.  The mutexes are initialised   *)
(* with default attributes: a lock call returns when the mutex is free     *)
(* ---------------------------------------------------------------------- *)
\* remove_client and add_client change the roster and so hold its mutex
\* meanwhile; the update_stats_ functions hold the stats mutex
UnseenPaths ==
    [remove_client |-> << <<"lock", "clients_mutex">>,
                          <<"unlock", "clients_mutex">> >>,
     add_client |-> << <<"lock", "clients_mutex">>,
                       <<"unlock", "clients_mutex">> >>,
     update_stats |-> << <<"lock", "stats_mutex">>,
                         <<"unlock", "stats_mutex">> >>]

\* client_thread_handler: one pass of the loop that accepts a connection,
\* serves a CompileRequest (add_job), serves a StatusRequest (find_job),
\* tears a session down after handle_client_message failed, or runs
\* cleanup_inactive_clients with an inactive session in the roster
ClientThreadPaths ==
    LET FindClient == << <<"lock", "clients_mutex">>,
                         <<"unlock", "clients_mutex">> >>
        \* cleanup_inactive_client
        CleanupInactiveClientPath ==
            << <<"lock", "jobs_mutex">>, <<"unlock", "jobs_mutex">> >>
            \o UnseenPaths.remove_client \o UnseenPaths.update_stats
    IN  { UnseenPaths.add_client \o UnseenPaths.update_stats,
          FindClient \o << <<"lock", "jobs_mutex">>, <<"lock", "stats_mutex">>,
                           <<"unlock", "stats_mutex">>,
                           <<"unlock", "jobs_mutex">> >>
                     \o UnseenPaths.update_stats,
          FindClient \o << <<"lock", "jobs_mutex">>,
                           <<"unlock", "jobs_mutex">> >>,
          FindClient \o CleanupInactiveClientPath,
          << <<"lock", "clients_mutex">> >> \o CleanupInactiveClientPath
              \o << <<"unlock", "clients_mutex">> >> }

\* handle_admin_message: ListClients, ListJobs and KillJob, ServerStats,
\* DisconnectClient
AdminThreadPaths ==
    { << <<"lock", "clients_mutex">>, <<"unlock", "clients_mutex">> >>,
      << <<"lock", "jobs_mutex">>, <<"unlock", "jobs_mutex">> >>,
      << <<"lock", "stats_mutex">>, <<"unlock", "stats_mutex">> >>,
      << <<"lock", "clients_mutex">>, <<"unlock", "clients_mutex">>,
         <<"lock", "stats_mutex">>, <<"unlock", "stats_mutex">> >> }

\* job_processor_thread: a pass that finds the table empty (get_next_job,
\* test of count), and a pass with a job (get_next_job, update_job_state,
\* complete_job, the counters)
WorkerPaths ==
    { << <<"lock", "jobs_mutex">>, <<"unlock", "jobs_mutex">>,
         <<"lock", "jobs_mutex">>, <<"unlock", "jobs_mutex">> >>,
      << <<"lock", "jobs_mutex">>, <<"unlock", "jobs_mutex">>,
         <<"lock", "jobs_mutex">>, <<"unlock", "jobs_mutex">>,
         <<"lock", "jobs_mutex">>, <<"unlock", "jobs_mutex">>,
         <<"lock", "stats_mutex">>, <<"unlock", "stats_mutex">> >> }

\* a thread at the head of its loop starts a pass
BeginPath(t) ==
    /\ locks.todo[t] = <<>>
    /\ \E path \in (CASE t = "client" -> ClientThreadPaths
                      [] t = "admin" -> AdminThreadPaths
                      [] OTHER -> WorkerPaths) :
          locks' = [locks EXCEPT !.todo[t] = path]
    /\ UNCHANGED <<next_id, job_queue, worker, clients, next_client_id, stats,
                   admin, now, ticks, hist, issued, base_id, last, scope,
                   wire, shutdown_requested, threads, list>>

\* pthread_mutex_lock returns once the mutex is free, and never for the
\* thread that holds it already; pthread_mutex_unlock frees it
LockStep(t) ==
    /\ locks.todo[t] # <<>>
    /\ LET call == Head(locks.todo[t]) IN
       IF call[1] = "lock"
       THEN /\ locks.holder[call[2]] = "none"
            /\ locks' = [locks EXCEPT !.holder[call[2]] = t,
                                      !.todo[t] = Tail(@)]
       ELSE locks' = [locks EXCEPT !.holder[call[2]] = "none",
                                   !.todo[t] = Tail(@)]
    /\ UNCHANGED <<next_id, job_queue, worker, clients, next_client_id, stats,
                   admin, now, ticks, hist, issued, base_id, last, scope,
                   wire, shutdown_requested, threads, list>>

NextLocks ==
    \/ \E t \in Threads : BeginPath(t)
    \/ \E t \in Threads : LockStep(t)

SpecLocks == InitRetention /\ [][NextLocks]_vars

(* ---------------------------------------------------------------------- *)
(* The admin thread and the client thread serving an operator and sessions *)
(* that say Hello, ping and leave, while the clock advances                *)
(* ---------------------------------------------------------------------- *)
InitControl ==
    /\ next_id = 1
    /\ base_id = 1
    /\ scope = [IdleScope EXCEPT !.clients = 1, !.admin = TRUE, !.corr = 1]
    /\ InitServer

\* the operator writes a ServerStats request on the open session
AdminSend ==
    /\ ~shutdown_requested
    /\ admin.fd_open
    /\ ~admin.unread
    /\ admin' = [admin EXCEPT !.unread = TRUE]
    /\ last' = Did("admin_send", 0, 0, NoResp)
    /\ UNCHANGED <<next_id, job_queue, worker, clients, next_client_id, stats,
                   now, ticks, hist, issued, base_id, scope, wire,
                   shutdown_requested, threads, locks, list>>

\* admin_thread_handler: poll of the listener reports POLLIN while a
\* session is open, so handle_admin_connection reads the session's socket
\* and the request is answered
AdminRead ==
    /\ ~shutdown_requested
    /\ AdminServes
    /\ admin.unread
    /\ admin' = [admin EXCEPT !.unread = FALSE]
    /\ last' = Did("admin_read", 0, 0, ServerStatsReply(admin, stats))
    /\ UNCHANGED <<next_id, job_queue, worker, clients, next_client_id, stats,
                   now, ticks, hist, issued, base_id, scope, wire,
                   shutdown_requested, threads, locks, list>>

\* one pass of the loop of admin_thread_handler that handles an event; the
\* socket is read in order, so an AdminConnect or DisconnectClient that is
\* written and read in one step comes after any message still unread
AdminThreadStep ==
    \/ AdminAccept
    \/ AdminRead
    \/ ~admin.unread /\ \E w \in WireInputs : AdminConnect(w)
    \/ /\ ~admin.unread
       /\ \E c \in ClientIds, force \in BOOLEAN, w \in WireInputs :
             AdminDisconnectClient(c, force, w)

NextControl ==
    \/ Tick
    \/ ClientThreadStep
    \/ \E c \in ClientIds, valid \in BOOLEAN, w \in WireInputs :
          Hello(c, valid, w)
    \/ AdminPeerConnects
    \/ AdminSend
    \/ AdminThreadStep

\* both threads keep running their loops; peers, operators and the clock
\* owe nothing
SpecControl ==
    /\ InitControl
    /\ [][NextControl]_vars
    /\ WF_vars(ClientThreadStep
               \/ \E c \in ClientIds, valid \in BOOLEAN, w \in WireInputs :
                     Hello(c, valid, w))
    /\ WF_vars(AdminThreadStep)

(* ---------------------------------------------------------------------- *)
(* Shutdown: main, the three threads it started, a signal and an operator  *)
(* ---------------------------------------------------------------------- *)
ShutdownScope ==
    [clients |-> 1, jobs |-> 1, ticks |-> 0, admin |-> TRUE, prio |-> FALSE,
     corr |-> 1, frames |-> FALSE]

InitShutdown ==
    /\ next_id = 1
    /\ base_id = 1
    /\ scope = ShutdownScope
    /\ InitServer

\* signal_handler for SIGINT and SIGTERM
Signal ==
    /\ ~shutdown_requested
    /\ shutdown_requested' = TRUE
    /\ last' = Did("signal", 0, 0, NoResp)
    /\ UNCHANGED <<next_id, job_queue, worker, clients, next_client_id, stats,
                   admin, now, ticks, hist, issued, base_id, scope, wire,
                   threads, locks, list>>

\* pthread_cond_broadcast(&g_server.job_queue_cond): a thread that waits on
\* the condition is woken, and no other thread is touched
CondBroadcast(w) == [w EXCEPT !.pc = IF @ = "waiting" THEN "loop" ELSE @]

\* main: the loop "while (!g_shutdown_requested)" ends, the server's flag
\* is set and the condition is broadcast
MainStopsServer ==
    /\ threads.main = "serving"
    /\ shutdown_requested
    /\ threads' = [threads EXCEPT !.main = "join_admin"]
    /\ worker' = CondBroadcast(worker)
    /\ last' = Did("main_stop", 0, 0, NoResp)
    /\ UNCHANGED <<next_id, job_queue, clients, next_client_id, stats, admin,
                   now, ticks, hist, issued, base_id, scope, wire,
                   shutdown_requested, locks, list>>

\* wait_for_threads: pthread_join of the admin, the client and the
\* processor thread, in this order
MainJoin ==
    /\ \/ /\ threads.main = "join_admin"
          /\ threads.admin = "exited"
          /\ threads' = [threads EXCEPT !.main = "join_client"]
       \/ /\ threads.main = "join_client"
          /\ threads.client = "exited"
          /\ threads' = [threads EXCEPT !.main = "join_processor"]
       \/ /\ threads.main = "join_processor"
          /\ worker.pc = "exited"
          /\ threads' = [threads EXCEPT !.main = "terminated"]
    /\ last' = Did("main_join", 0, 0, NoResp)
    /\ UNCHANGED <<next_id, job_queue, worker, clients, next_client_id, stats,
                   admin, now, ticks, hist, issued, base_id, scope, wire,
                   shutdown_requested, locks, list>>

\* admin_thread_handler: the loop test fails; an open session is closed
AdminThreadExit ==
    /\ threads.admin = "running"
    /\ shutdown_requested
    /\ threads' = [threads EXCEPT !.admin = "exited"]
    /\ admin' = IF admin.fd_open
                THEN [admin EXCEPT !.fd_open = FALSE, !.authenticated = FALSE,
                                   !.open_sessions = @ - 1]
                ELSE admin
    /\ last' = Did("admin_thread_exit", 0, 0, NoResp)
    /\ UNCHANGED <<next_id, job_queue, worker, clients, next_client_id, stats,
                   now, ticks, hist, issued, base_id, scope, wire,
                   shutdown_requested, locks, list>>

\* client_thread_handler: the loop test fails
ClientThreadExit ==
    /\ threads.client = "running"
    /\ shutdown_requested
    /\ threads' = [threads EXCEPT !.client = "exited"]
    /\ last' = Did("client_thread_exit", 0, 0, NoResp)
    /\ UNCHANGED <<next_id, job_queue, worker, clients, next_client_id, stats,
                   admin, now, ticks, hist, issued, base_id, scope, wire,
                   shutdown_requested, locks, list>>

\* job_processor_thread: the loop test fails
WorkerExit ==
    /\ worker.pc = "loop"
    /\ shutdown_requested
    /\ worker' = [worker EXCEPT !.pc = "exited"]
    /\ last' = Did("worker_exit", 0, 0, NoResp)
    /\ UNCHANGED <<next_id, job_queue, clients, next_client_id, stats, admin,
                   now, ticks, hist, issued, base_id, scope, wire,
                   shutdown_requested, threads, locks, list>>

\* the admin thread serving an operator who connects and asks for shutdown
OperatorStep ==
    \/ AdminPeerConnects
    \/ AdminAccept
    \/ \E w \in WireInputs : AdminConnect(w)
    \/ \E w \in WireInputs : AdminShutdown(w)

NextShutdown ==
    \/ Signal
    \/ AcceptClient
    \/ SubmitStep
    \/ WorkerStep
    \/ WorkerExit
    \/ OperatorStep
    \/ AdminThreadExit
    \/ ClientThreadExit
    \/ MainStopsServer
    \/ MainJoin

\* every thread that can take a step of its own gets to take it; peers and
\* signals owe nothing
SpecShutdown ==
    /\ InitShutdown
    /\ [][NextShutdown]_vars
    /\ WF_vars(WorkerStep \/ WorkerExit)
    /\ WF_vars(AdminThreadExit)
    /\ WF_vars(ClientThreadExit)
    /\ WF_vars(MainStopsServer \/ MainJoin)

(* ---------------------------------------------------------------------- *)
(* Properties                                                              *)
(* ---------------------------------------------------------------------- *)
\* the job table's record for id (the first node find_job would reach)
JobOf(q, id) == q[FindIdx(q, id)]

InTable(q, id) == FindIdx(q, id) # 0

\* position of a state along Queued -> Running -> terminal
Rank(state) ==
    IF state = JOB_STATE_QUEUED THEN 0
    ELSE IF state = JOB_STATE_RUNNING THEN 1
    ELSE 2

Owner(j) == hist[j].client_id

\* C1: over every step of the scheduler, the session handlers and the
\* control plane, the state recorded for a job either stays what it was or
\* moves forward along Queued -> Running -> terminal; a terminal state is
\* never replaced by another state.
C1_StateMovesForward ==
    [][\A id \in QueueIds(job_queue) \cap QueueIds(job_queue') :
          LET before == JobOf(job_queue, id).state
              after == JobOf(job_queue', id).state
          IN  before # after => Rank(before) < Rank(after)]_vars

\* C1 witness: cancel_job has just moved a job of the table to Cancelled and
\* the worker is at the top of its loop, about to take a job
C1_Witness ==
    /\ last.op = "cancel_job"
    /\ InTable(job_queue, last.id)
    /\ JobOf(job_queue, last.id).state = JOB_STATE_CANCELLED
    /\ Head(job_queue).job_id = last.id
    /\ worker.pc = "loop"

\* C2: a StatusRequest or ResultRequest naming a job that is not retired and
\* belongs to another session is answered with Error{Permission}.
C2_NonOwnerRefused ==
    \A c \in DOMAIN clients, j \in DOMAIN hist :
        (clients[c].fd_open /\ Owner(j) # c /\ ~hist[j].retired)
        => /\ StatusReply(job_queue, c, TRUE, j) = ErrorReply(c, ERROR_PERMISSION)
           /\ ResultReply(job_queue, c, TRUE, j) = ErrorReply(c, ERROR_PERMISSION)

\* C3: every job that was submitted and has not been retired by the
\* retention sweep is found by find_job and is a row of ListJobs.
C3_VisibleUntilRetired ==
    \A j \in DOMAIN hist :
        ~hist[j].retired
        => /\ InTable(job_queue, j)
           /\ \E i \in 1..Len(ListJobsRows(job_queue)) :
                 ListJobsRows(job_queue)[i].job_id = j

\* C4: once the worker is done with a CompileOnly job whose compile step
\* exited 0 (and nobody asked to cancel it), a StatusRequest from the owning
\* session is answered StatusResponse{J, Completed, exit_code 0}.
C4_CompletedReported ==
    \A j \in DOMAIN hist :
        (/\ hist[j].mode = EXEC_MODE_COMPILE_ONLY
         /\ hist[j].phase = "finished"
         /\ hist[j].result = 0
         /\ hist[j].cancel = "none"
         /\ ~hist[j].retired
         /\ Readable(Owner(j)))
        => StatusReply(job_queue, Owner(j), TRUE, j)
             = Reply(Owner(j), MSG_STATUS_RESPONSE, ERROR_NONE, j,
                     JOB_STATE_COMPLETED, 0)

\* ids handed out before the observed run began
PreviouslyAssigned == 1..(base_id - 1)

C6_CancelTakesEffect ==
    (/\ last.op = "cancel_job"
     /\ last.id \in DOMAIN hist
     /\ hist[last.id].phase \in {"queued", "running"}
     /\ ~hist[last.id].retired)
    => /\ InTable(job_queue, last.id)
       /\ JobOf(job_queue, last.id).state = JOB_STATE_CANCELLED

\* C7: a job whose cancellation was requested while it was Queued is never
\* in the worker's hands with the executor running.
C7_CancelledNeverExecuted ==
    \A j \in DOMAIN hist :
        hist[j].cancel = "queued"
        => ~(worker.pc = "executing" /\ worker.job.job_id = j)

\* C8: a cancel_job, or a KillJob served for an authenticated operator, that
\* names a job in a terminal state changes no field of any job and is not
\* answered with an error.
C8_CancelTerminalNoOp ==
    [][(/\ \/ last'.op = "cancel_job"
           \/ last'.op = "kill_job" /\ admin.authenticated
        /\ InTable(job_queue, last'.id)
        /\ JobOf(job_queue, last'.id).state \in TerminalStates)
       => /\ job_queue' = job_queue
          /\ last'.resp.kind # MSG_ERROR]_vars

\* C9: once the worker is done with a job for which KillJob was served while
\* it was Running, ListJobs shows the job in state Cancelled.
C9_KilledJobListed ==
    \A j \in DOMAIN hist :
        (/\ hist[j].kill = "running"
         /\ hist[j].phase = "finished"
         /\ ~hist[j].retired
         /\ admin.authenticated)
        => \E i \in 1..Len(ListJobsReply(admin, job_queue).rows) :
              /\ ListJobsReply(admin, job_queue).rows[i].job_id = j
              /\ ListJobsReply(admin, job_queue).rows[i].state
                   = JOB_STATE_CANCELLED

\* C10: the owner's ResultRequest for a job of the table is answered
\* Error{Permission} when the job is not in a terminal state, and with a
\* ResultResponse carrying the job's state when it is in a terminal state
\* (Completed, Failed, Cancelled or Timeout).
C10_ResultWhenTerminal ==
    \A j \in QueueIds(job_queue) :
        LET job == JobOf(job_queue, j)
            c == job.client_id
        IN  Readable(c)
            => ResultReply(job_queue, c, TRUE, j)
                 = IF job.state \in TerminalStates
                   THEN Reply(c, MSG_RESULT_RESPONSE, ERROR_NONE, j, job.state,
                              job.exit_code)
                   ELSE ErrorReply(c, ERROR_PERMISSION)

\* C11: whenever the worker takes a queued job, no job still queued has a
\* higher priority than the job taken (among equal priorities the worker
\* takes the one submitted first: it takes the head of the list).
C11_PriorityOrder ==
    [][(/\ worker.pc = "loop"
        /\ worker'.pc = "executing"
        /\ worker'.job = Head(job_queue)
        /\ worker'.job.state = JOB_STATE_QUEUED)
       => \A i \in 1..Len(job_queue) :
             job_queue[i].state = JOB_STATE_QUEUED
             => job_queue[i].priority <= worker'.job.priority]_vars

\* the worker has just finished job last.id, which nobody asked to cancel
\* and which no sweep has retired
FinishedUncancelled ==
    /\ last.op = "finish_job"
    /\ last.id \in DOMAIN hist
    /\ hist[last.id].cancel = "none"
    /\ ~hist[last.id].retired

\* the exit code of the step that ended the job
ExecutorExitCode(o) ==
    IF o.compile_exit_code # 0 THEN o.compile_exit_code ELSE o.exec_exit_code

TimedOut(o) ==
    \/ o.compile_exit_code = TIMEOUT_EXIT_CODE
    \/ o.exec_exit_code = TIMEOUT_EXIT_CODE

\* C12: when the executor has finished a job that was neither timed out nor
\* cancelled, the job's record carries the executor's exit code and is
\* Completed when that code is 0 and Failed otherwise.
C12_ExitCodeRecorded ==
    (/\ FinishedUncancelled
     /\ ~TimedOut(last.outcome)
     /\ (last.outcome.result = 0) = (ExecutorExitCode(last.outcome) = 0))
    => /\ InTable(job_queue, last.id)
       /\ JobOf(job_queue, last.id).exit_code = ExecutorExitCode(last.outcome)
       /\ JobOf(job_queue, last.id).state
            = IF ExecutorExitCode(last.outcome) = 0 THEN JOB_STATE_COMPLETED
              ELSE JOB_STATE_FAILED

\* C13: when the compile or the execute step of a job ran into its time
\* limit, the job's record is in state Timeout.
C13_TimeoutState ==
    (FinishedUncancelled /\ TimedOut(last.outcome))
    => /\ InTable(job_queue, last.id)
       /\ JobOf(job_queue, last.id).state = JOB_STATE_TIMEOUT

\* C14: when the compile step of a CompileAndRun job has failed, the run
\* step was not started and the job's record is Failed with the compile
\* step's exit code.
C14_CompileFailureShortCircuits ==
    (/\ FinishedUncancelled
     /\ hist[last.id].mode = EXEC_MODE_COMPILE_AND_RUN
     /\ last.outcome.compile_exit_code # 0
     /\ ~TimedOut(last.outcome))
    => /\ ~last.outcome.ran_exec
       /\ InTable(job_queue, last.id)
       /\ JobOf(job_queue, last.id).state = JOB_STATE_FAILED
       /\ JobOf(job_queue, last.id).exit_code = last.outcome.compile_exit_code

\* jobs that are Queued or Running: the records of the table in one of these
\* states, and the job the worker is executing
QueuedOrRunning ==
    Cardinality({i \in 1..Len(job_queue) :
                    job_queue[i].state \in {JOB_STATE_QUEUED,
                                            JOB_STATE_RUNNING}})
    + (IF worker.pc = "executing" THEN 1 ELSE 0)

\* C15: in every state the counter active_jobs equals the number of jobs
\* that are Queued or Running.
C15_ActiveJobsCount == stats.active_jobs = QueuedOrRunning

\* sessions of the roster that are not Disconnecting
LiveSessions ==
    {c \in DOMAIN clients : clients[c].state # CLIENT_STATE_DISCONNECTING}

\* C16: whenever the operator can be sent a ServerStats response, the
\* active_clients it carries is the number of sessions not Disconnecting.
C16_ActiveClientsCount ==
    (AdminServes /\ admin.authenticated)
    => ServerStatsReply(admin, stats).stats.active_clients
         = Cardinality(LiveSessions)

\* C17: in every step the state of every session stays what it was or
\* changes along a transition of the session state machine: Connecting ->
\* Authenticated -> Idle, Idle -> Uploading, Uploading -> Idle, Idle ->
\* Processing, any -> Disconnecting. Authenticated counts as Idle for the
\* start of an upload, the step from one to the other being implicit.
C17_SessionTransitions ==
    [][LET machine ==
               { <<CLIENT_STATE_CONNECTING, CLIENT_STATE_AUTHENTICATED>>,
                 <<CLIENT_STATE_AUTHENTICATED, CLIENT_STATE_IDLE>>,
                 <<CLIENT_STATE_AUTHENTICATED, CLIENT_STATE_UPLOADING>>,
                 <<CLIENT_STATE_IDLE, CLIENT_STATE_UPLOADING>>,
                 <<CLIENT_STATE_UPLOADING, CLIENT_STATE_IDLE>>,
                 <<CLIENT_STATE_IDLE, CLIENT_STATE_PROCESSING>> }
       IN  \A c \in DOMAIN clients \cap DOMAIN clients' :
              \/ clients'[c].state = clients[c].state
              \/ clients'[c].state = CLIENT_STATE_DISCONNECTING
              \/ <<clients[c].state, clients'[c].state>> \in machine]_vars

\* C18: a session that has just been accepted and sends a Ping or a
\* StatusRequest as its first message is answered Error{InvalidArgument}.
C18_HelloFirst ==
    (last.op = "accept" /\ Readable(last.client))
    => /\ clients[last.client].state = CLIENT_STATE_CONNECTING
       /\ PingReply(last.client)
            = ErrorReply(last.client, ERROR_INVALID_ARGUMENT)
       /\ \A id \in IdInputs :
             StatusReply(job_queue, last.client, TRUE, id)
               = ErrorReply(last.client, ERROR_INVALID_ARGUMENT)

\* C19: a CompileRequest served while the session is not Idle is answered
\* Error{Permission}, creates no job, hands out no id and leaves the session
\* as it was.
C19_CompileOutsideIdle ==
    [][(/\ last'.op = "compile"
        /\ last'.client \in DOMAIN clients
        /\ clients[last'.client].state # CLIENT_STATE_IDLE)
       => /\ last'.resp = ErrorReply(last'.client, ERROR_PERMISSION)
          /\ job_queue' = job_queue
          /\ next_id' = next_id
          /\ DOMAIN clients' = DOMAIN clients
          /\ \A c \in DOMAIN clients :
                /\ clients'[c].state = clients[c].state
                /\ clients'[c].active_jobs = clients[c].active_jobs
                /\ clients'[c].fd_open = clients[c].fd_open
          /\ stats' = stats]_vars

\* C19 witness: a session that is Processing has just had a CompileRequest
\* refused with Error{Permission} while its first job is still in the table
C19_Witness ==
    /\ last.op = "compile"
    /\ last.client \in DOMAIN clients
    /\ clients[last.client].state = CLIENT_STATE_PROCESSING
    /\ last.resp = ErrorReply(last.client, ERROR_PERMISSION)
    /\ Len(job_queue) = 1

\* C20: a CompileRequest answered with a CompileResponse was served in Idle;
\* it has put exactly one job, Queued and owned by the session, at the tail
\* of the table, has raised the session's active_jobs by one, has moved the
\* session to Processing, and its response carries that job's id and Queued.
C20_AcceptedCompile ==
    [][(last'.op = "compile" /\ last'.resp.kind = MSG_COMPILE_RESPONSE)
       => LET c == last'.client
              n == Len(job_queue')
          IN  /\ clients[c].state = CLIENT_STATE_IDLE
              /\ n = Len(job_queue) + 1
              /\ SubSeq(job_queue', 1, n - 1) = job_queue
              /\ job_queue'[n].job_id = last'.resp.job_id
              /\ job_queue'[n].job_id # 0
              /\ job_queue'[n].client_id = c
              /\ job_queue'[n].state = JOB_STATE_QUEUED
              /\ last'.resp.status = JOB_STATUS_QUEUED
              /\ clients'[c].active_jobs = clients[c].active_jobs + 1
              /\ clients'[c].state = CLIENT_STATE_PROCESSING]_vars

\* C20 witness: a second CompileRequest has just been answered with a
\* CompileResponse and its job is in the table behind the first
C20_Witness ==
    /\ last.op = "compile"
    /\ last.resp.kind = MSG_COMPILE_RESPONSE
    /\ Len(job_queue) = 2
    /\ job_queue[2].job_id = last.resp.job_id
    /\ job_queue[2].state = JOB_STATE_QUEUED

C24_ErrorKeepsConnection ==
    last.resp.kind = MSG_ERROR
    => IF last.resp.to = 0 THEN admin.fd_open ELSE Readable(last.resp.to)

\* C24 witness: an Idle session has just been answered
\* Error{InvalidArgument} to a CompileRequest and is still open
C24_Witness ==
    /\ last.op = "compile"
    /\ last.resp = ErrorReply(last.client, ERROR_INVALID_ARGUMENT)
    /\ Readable(last.client)
    /\ clients[last.client].state = CLIENT_STATE_IDLE

\* the session is in the roster and is_client_inactive holds for it
InactiveSession(c) ==
    c \in DOMAIN clients /\ IsClientInactive(clients[c], now)

\* C25: a session without activity for more than client_timeout seconds
\* does not stay so for ever: it is torn down and removed (or is seen
\* active again), whatever the other sessions send.
C25_InactiveSessionTornDown ==
    \A c \in ClientIds : InactiveSession(c) ~> ~InactiveSession(c)

\* C26: a step that tears sessions down leaves in the table, in state
\* Cancelled, every job of theirs that was Queued or Running (the job the
\* worker is executing included), and leaves the state of every other
\* record of the table as it was.
C26_TeardownCancelsOwnJobs ==
    [][LET gone == (DOMAIN clients) \ (DOMAIN clients')
       IN  gone # {}
           => /\ Len(job_queue') = Len(job_queue)
              /\ \A i \in 1..Len(job_queue) :
                    job_queue'[i].state =
                       IF /\ job_queue[i].client_id \in gone
                          /\ job_queue[i].state \in {JOB_STATE_QUEUED,
                                                     JOB_STATE_RUNNING}
                       THEN JOB_STATE_CANCELLED
                       ELSE job_queue[i].state
              /\ (worker.pc = "executing" /\ worker.job.client_id \in gone)
                 => /\ InTable(job_queue', worker.job.job_id)
                    /\ JobOf(job_queue', worker.job.job_id).state
                         = JOB_STATE_CANCELLED]_vars

\* C27: never more than one control connection is accepted and open; a
\* connection is accepted only while none is open; and a connection that
\* waits while a session is open keeps waiting in every step that leaves a
\* session open before it.
C27_OneAdminSession ==
    [][/\ admin'.open_sessions <= 1
       /\ admin'.open_sessions > admin.open_sessions
          => admin.open_sessions = 0
       /\ (admin.pending /\ admin.open_sessions > 0)
          => admin'.pending]_vars

\* C27 witness: the open session has just been served its AdminConnect
\* while a second connection waits on the control socket
C27_Witness ==
    /\ last.op = "admin_connect"
    /\ admin.pending
    /\ admin.fd_open
    /\ admin.authenticated
    /\ admin.open_sessions = 1

C29_QueueWithinCap ==
    [][/\ Len(job_queue') <= max_size
       /\ (last'.op = "compile" /\ Len(job_queue) >= max_size)
          => /\ last'.resp.kind = MSG_ERROR
             /\ job_queue' = job_queue]_vars

\* C30: a job whose record in the job table is terminal and older than
\* MAX_COMPLETED_JOB_AGE is eventually removed from the table by the sweep;
\* and the sweep removes only records that are terminal and older than that.
C30_SweepRetiresExpiredJobs ==
    /\ \A j \in 1..MaxJobs :
          (\E i \in 1..Len(job_queue) :
              /\ job_queue[i].job_id = j
              /\ job_queue[i].state \in TerminalStates
              /\ (now - job_queue[i].end_time) > MAX_COMPLETED_JOB_AGE)
          ~> (j \in DOMAIN hist /\ hist[j].retired)
    /\ [][last'.op = "cleanup_completed_jobs"
          => \A i \in 1..Len(job_queue) :
                job_queue[i].job_id \notin QueueIds(job_queue')
                => /\ job_queue[i].state \in TerminalStates
                   /\ (now - job_queue[i].end_time)
                        > MAX_COMPLETED_JOB_AGE]_vars

\* C31: once the shutdown flag is set, the admin thread, the client thread
\* and the worker all exit and main joins them and terminates, wherever the
\* worker was in its loop when the flag was set.
C31_ShutdownTerminates ==
    shutdown_requested
    ~> /\ threads.main = "terminated"
       /\ threads.admin = "exited"
       /\ threads.client = "exited"
       /\ worker.pc = "exited"

\* C32: the worker waits on the condition only while the job table is
\* empty, and every job put in the table leaves the Queued phase (the worker
\* dequeues it) unless the sweep retired it first.
C32_NoLostWakeup ==
    /\ [](worker.pc = "waiting" => job_queue = <<>>)
    /\ \A j \in 1..MaxJobs :
          (j \in DOMAIN hist /\ hist[j].phase = "queued")
          ~> (/\ j \in DOMAIN hist
              /\ hist[j].phase # "queued" \/ hist[j].retired)

\* C32 witness: a job was submitted between get_next_job returning NULL and
\* the worker's test of the count, and the worker goes back to the head of
\* its loop instead of waiting
C32_Witness ==
    /\ last.op = "check_empty"
    /\ worker.pc = "loop"
    /\ \E i \in 1..Len(job_queue) : job_queue[i].state = JOB_STATE_QUEUED

\* C33: when handle_status_request reads the job record through the pointer
\* find_job returned, the node holding the record is still in the job table.
C33_NoAccessAfterFree ==
    [][last'.op = "status_read"
       => InTable(job_queue, threads.lookup.job_id)]_vars

\* C34: no set of threads is stuck on the roster, job-table and stats
\* mutexes: there is never a group of threads each of which is inside a lock
\* call for a mutex held by a thread of the group (a group of one is a
\* thread that locks a mutex it already holds).
C34_NoThreadBlocksForever ==
    ~ \E S \in (SUBSET Threads) \ {{}} :
         \A t \in S :
            /\ locks.todo[t] # <<>>
            /\ Head(locks.todo[t])[1] = "lock"
            /\ locks.holder[Head(locks.todo[t])[2]] \in S

\* C35: a message the operator has written on the open control session is
\* eventually read and answered by the admin thread.
C35_AdminMessageAnswered ==
    (admin.fd_open /\ admin.unread) ~> ~admin.unread

\* C36: a session marked Disconnecting by DisconnectClient, forced or not,
\* stays Disconnecting for as long as its record is in the roster, whatever
\* it sends, and its record eventually leaves the roster
C36_DisconnectingIsTornDown ==
    /\ [][\A c \in DOMAIN clients :
            (clients[c].state = CLIENT_STATE_DISCONNECTING
               /\ c \in DOMAIN clients')
            => clients'[c].state = CLIENT_STATE_DISCONNECTING]_vars
    /\ \A c \in ClientIds :
         (c \in DOMAIN clients
            /\ clients[c].state = CLIENT_STATE_DISCONNECTING)
         ~> (c \notin DOMAIN clients)

\* job_state_t: the state an enumerator value of the scheduler denotes
JobStateName(state) ==
    IF state = 0 THEN "Queued"
    ELSE IF state = 1 THEN "Running"
    ELSE IF state = 2 THEN "Completed"
    ELSE IF state = 3 THEN "Failed"
    ELSE IF state = 4 THEN "Cancelled"
    ELSE IF state = 5 THEN "Timeout"
    ELSE "none"

\* job_status_t: the state a status code of the protocol denotes
JobStatusName(status) ==
    IF status = 0 THEN "Queued"
    ELSE IF status = 1 THEN "Compiling"
    ELSE IF status = 2 THEN "Running"
    ELSE IF status = 3 THEN "Completed"
    ELSE IF status = 4 THEN "Failed"
    ELSE IF status = 5 THEN "Cancelled"
    ELSE IF status = 6 THEN "Timeout"
    ELSE "none"

\* C37: whenever a StatusRequest or a ResultRequest of a connected session
\* would be answered with a StatusResponse or a ResultResponse, the status
\* code carried on the wire decodes to the state the scheduler holds for
\* the job at that moment
C37_WireStatusDenotesJobState ==
    \A c \in {x \in ClientIds : Readable(x)}, id \in IdInputs :
       /\ StatusReply(job_queue, c, TRUE, id).kind = MSG_STATUS_RESPONSE
          => JobStatusName(StatusReply(job_queue, c, TRUE, id).status)
             = JobStateName(JobOf(job_queue, id).state)
       /\ ResultReply(job_queue, c, TRUE, id).kind = MSG_RESULT_RESPONSE
          => JobStatusName(ResultReply(job_queue, c, TRUE, id).status)
             = JobStateName(JobOf(job_queue, id).state)

C39_CountersMatchOutcomes ==
    (\A j \in DOMAIN hist : hist[j].cancel = "none")
    => /\ stats.completed_jobs
            = Cardinality({j \in DOMAIN hist : /\ hist[j].phase = "finished"
                                               /\ hist[j].result = 0})
       /\ stats.failed_jobs
            = Cardinality({j \in DOMAIN hist : /\ hist[j].phase = "finished"
                                               /\ hist[j].result # 0})

(* ---------------------------------------------------------------------- *)
(* The job list as the heap holds it: the functions that link and unlink   *)
(* nodes, each under jobs_mutex from its first access to its last          *)
(* ---------------------------------------------------------------------- *)
\* add_job: node is the address malloc returned
ListAddJob(l, node, job) ==
    LET l1 == [l EXCEPT !.job[node] = job, !.next[node] = 0,
                        !.live = @ \cup {node}]
        l2 == IF l1.tail # 0 THEN [l1 EXCEPT !.next[l1.tail] = node]
              ELSE [l1 EXCEPT !.head = node]
    IN  [l2 EXCEPT !.tail = node, !.count = @ + 1]

\* a dequeue that leaves tail as it was
ListGetNextJobKeepTail(l) ==
    IF l.head = 0 THEN l
    ELSE [l EXCEPT !.head = l.next[l.head], !.count = @ - 1,
                   !.live = @ \ {l.head}, !.next[l.head] = 0,
                   !.job[l.head] = NoJob]

\* get_next_job: unlink the head node, copy its job and free it
ListGetNextJob(l) ==
    IF l.head = 0 THEN l
    ELSE LET node == l.head
             l1 == [l EXCEPT !.head = l.next[node]]
             l2 == IF l1.head = 0 THEN [l1 EXCEPT !.tail = 0] ELSE l1
         IN  [l2 EXCEPT !.count = @ - 1, !.live = @ \ {node},
                        !.next[node] = 0, !.job[node] = NoJob]

\* cleanup_completed_jobs: the walk with prev, node and next
ListCleanupCompletedJobs(l, t) ==
    LET RECURSIVE Walk(_, _, _)
        Walk(s, prev, node) ==
            IF node = 0 THEN s
            ELSE LET next == s.next[node] IN
                 IF IsExpired(s.job[node], t)
                 THEN LET s1 == IF prev # 0 THEN [s EXCEPT !.next[prev] = next]
                                ELSE [s EXCEPT !.head = next]
                          s2 == IF node = s1.tail THEN [s1 EXCEPT !.tail = prev]
                                ELSE s1
                      IN  Walk([s2 EXCEPT !.count = @ - 1,
                                          !.live = @ \ {node},
                                          !.next[node] = 0,
                                          !.job[node] = NoJob],
                               prev, next)
                 ELSE Walk(s, node, next)
    IN  Walk(l, 0, l.head)

\* reorder_queue_by_priority: the do-while of passes, each pass the while
\* loop with prev, current and next
ListReorder(l) ==
    LET RECURSIVE Pass(_, _, _, _, _)
        Pass(s, prev, current, next, swapped) ==
            IF next = 0 THEN [l |-> s, swapped |-> swapped]
            ELSE IF /\ s.job[current].state = JOB_STATE_QUEUED
                    /\ s.job[next].state = JOB_STATE_QUEUED
                    /\ s.job[current].priority < s.job[next].priority
            THEN LET s1 == IF prev # 0 THEN [s EXCEPT !.next[prev] = next]
                           ELSE [s EXCEPT !.head = next]
                     s2 == [s1 EXCEPT !.next[current] = s1.next[next]]
                     s3 == [s2 EXCEPT !.next[next] = current]
                     s4 == IF current = s3.tail THEN [s3 EXCEPT !.tail = next]
                           ELSE IF next = s3.tail
                                THEN [s3 EXCEPT !.tail = current]
                           ELSE s3
                 IN  Pass(s4, next, current, s4.next[current], TRUE)
            ELSE Pass(s, current, next, s.next[next], swapped)
        RECURSIVE Passes(_)
        Passes(s) ==
            LET r == Pass(s, 0, s.head,
                          IF s.head # 0 THEN s.next[s.head] ELSE 0, FALSE)
            IN  IF r.swapped THEN Passes(r.l) ELSE r.l
    IN  IF l.count <= 1 THEN l ELSE Passes(l)

\* the callers of the four functions, and between their calls the writers
\* of a node's state and priority (cancel_job, set_job_priority) and the
\* clock
NextList ==
    \/ Tick
    \/ \E node \in (1..MaxNodes) \ list.live :
          /\ next_id <= MaxNodes + 1
          /\ list' = [ListAddJob(list, node,
                                 NewJob(next_id, 1, EXEC_MODE_COMPILE_ONLY, now))
                        EXCEPT !.in = @ \cup {next_id}]
          /\ next_id' = next_id + 1
          /\ last' = Did("add_job", 1, next_id, NoResp)
          /\ UNCHANGED <<job_queue, worker, clients, next_client_id, stats,
                         admin, now, ticks, hist, issued, base_id, scope, wire,
                         shutdown_requested, threads, locks>>
    \/ /\ list' = [ListGetNextJob(list)
                     EXCEPT !.in = @ \ {list.job[n].job_id : n \in {list.head} \ {0}}]
       /\ last' = Did("get_next_job", 0, 0, NoResp)
       /\ UNCHANGED <<next_id, job_queue, worker, clients, next_client_id,
                      stats, admin, now, ticks, hist, issued, base_id, scope,
                      wire, shutdown_requested, threads, locks>>
    \/ /\ list' = [ListCleanupCompletedJobs(list, now)
                     EXCEPT !.in = @ \ {list.job[n].job_id :
                                          n \in {m \in list.live :
                                                   IsExpired(list.job[m], now)}}]
       /\ last' = Did("cleanup_completed_jobs", 0, 0, NoResp)
       /\ UNCHANGED <<next_id, job_queue, worker, clients, next_client_id,
                      stats, admin, now, ticks, hist, issued, base_id, scope,
                      wire, shutdown_requested, threads, locks>>
    \/ /\ list' = ListReorder(list)
       /\ last' = Did("reorder_queue", 0, 0, NoResp)
       /\ UNCHANGED <<next_id, job_queue, worker, clients, next_client_id,
                      stats, admin, now, ticks, hist, issued, base_id, scope,
                      wire, shutdown_requested, threads, locks>>
    \/ \E node \in list.live :
          /\ list' = [list EXCEPT !.job[node] =
                         CancelJobQ(<<@>>, @.job_id, now)[1]]
          /\ last' = Did("cancel_job", 0, list.job[node].job_id, NoResp)
          /\ UNCHANGED <<next_id, job_queue, worker, clients, next_client_id,
                         stats, admin, now, ticks, hist, issued, base_id,
                         scope, wire, shutdown_requested, threads, locks>>
    \/ \E node \in list.live :
          /\ list' = [list EXCEPT !.job[node] =
                         SetJobPriorityQ(<<@>>, @.job_id, JOB_PRIORITY_HIGH)[1]]
          /\ last' = Did("set_job_priority", 0, list.job[node].job_id, NoResp)
          /\ UNCHANGED <<next_id, job_queue, worker, clients, next_client_id,
                         stats, admin, now, ticks, hist, issued, base_id,
                         scope, wire, shutdown_requested, threads, locks>>

SpecList == InitRetention /\ [][NextList]_vars

\* C40: after any interleaving of add_job, get_next_job,
\* cleanup_completed_jobs and reorder_queue_by_priority the chain of nodes
\* from head ends (no node is met twice), count is its length, tail is its
\* last node, head and tail are both NULL exactly when count is 0, and the
\* jobs on the chain are, each once, the jobs added and not yet taken out
\* by get_next_job or by the sweep
C40_ListWellFormed ==
    LET RECURSIVE Reach(_, _)
        Reach(n, fuel) ==
            IF n = 0 \/ fuel = 0 THEN <<>>
            ELSE <<n>> \o Reach(list.next[n], fuel - 1)
        chain == Reach(list.head, MaxNodes + 1)
    IN  /\ \A i, j \in 1..Len(chain) : chain[i] = chain[j] => i = j
        /\ list.count = Len(chain)
        /\ list.tail = IF chain = <<>> THEN 0 ELSE chain[Len(chain)]
        /\ (list.head = 0 /\ list.tail = 0) <=> list.count = 0
        /\ {list.job[chain[i]].job_id : i \in 1..Len(chain)} = list.in
        /\ Cardinality(list.in) = Len(chain)

\* a reorder has just moved a later job in front of an earlier one in a
\* list of three
C40_Witness ==
    /\ last.op = "reorder_queue"
    /\ list.count = MaxNodes
    /\ list.job[list.head].job_id > list.job[list.tail].job_id


====
